---- MODULE Spec2Model ----
(***************************************************************************)
(* dockergoal: reconciliation of desired container state against a         *)
(* container engine (NewContainer, Apply, ApplyGraph) and the dockerutil   *)
(* helpers it calls (CreateWithPull, ImageID).                             *)
(*                                                                         *)
(* Strings that the code takes apart or builds ("name:alias" links,        *)
(* "source:destination" binds) are sequences of tokens, a token being      *)
(* either ":" or a colon-free piece; all other strings are TLA+ strings.   *)
(* Every engine call is one step, and the log records it.                  *)
(***************************************************************************)
EXTENDS Naturals, Sequences, FiniteSets

VARIABLES
    containers,   \* engine: container name -> ContainerInfo or NoContainer
    images,       \* engine: the local image catalog, a sequence of Image records
    nextId,       \* engine: the next fresh container ID
    c,            \* the Container (desired state) the running Apply is a method of
    pc,           \* position of the running Apply
    ci,           \* Apply's local ci
    createIt,     \* Apply's local createIt
    returned,     \* what each Apply call so far returned, in call order
    callNo,       \* number of Apply calls made so far
    pre,          \* the engine's containers and images when the running Apply was called
    log,          \* every engine call and hook invocation so far, in order
    batch,        \* ApplyGraph's argument containers
    known,        \* ApplyGraph's local known
    started,      \* ApplyGraph's local started
    pending,      \* ApplyGraph's local pending
    nextRound,    \* ApplyGraph's local nextRound
    starting,     \* ApplyGraph's local starting
    gi,           \* index of pendingLoop in pending
    gpc,          \* position of ApplyGraph
    gres,         \* what ApplyGraph returned
    options,      \* NewContainer's argument options
    oi,           \* index in options of NewContainer's loop
    nc,           \* NewContainer's local c
    invoked,      \* the options NewContainer has invoked so far, in order
    npc,          \* position of NewContainer
    nres,         \* what NewContainer returned
    farg,         \* the arguments of the function under study
    fpc,          \* position in that function
    evaluated,    \* the checks checkExisting has evaluated so far, in order
    fout,         \* what the function returned
    other,        \* the Apply that runs beside the current one, where it stands
    reference     \* two Applys run one after the other: the outcome

engineVars == <<containers, images, nextId>>
applyVars == <<c, pc, ci, createIt, returned, callNo, pre>>
graphVars == <<batch, known, started, pending, nextRound, starting, gi, gpc, gres>>
newVars == <<options, oi, nc, invoked, npc, nres>>
fnVars == <<farg, fpc, evaluated, fout>>
twoVars == <<other, reference>>
vars == <<containers, images, nextId, c, pc, ci, createIt,
          returned, callNo, pre, log, batch, known, started, pending, nextRound,
          starting, gi, gpc, gres, options, oi, nc, invoked, npc, nres,
          farg, fpc, evaluated, fout, other, reference>>

(***************************************************************************)
(* Bounds                                                                  *)
(***************************************************************************)
MaxApplyCalls == 2
MaxLinks == 2
MaxTotalLinks == 2
MaxOptions == 3
MaxLen == 3

(***************************************************************************)
(* Values                                                                  *)
(***************************************************************************)
Names == {"a", "b", "c"}
NoContainer == [none |-> TRUE]
NilHostConfig == [nil |-> TRUE]
NilSpec == [nospec |-> TRUE]
NoApply == [noapply |-> TRUE]
NoReference == [noreference |-> TRUE]
NoErr == "nil"
ErrNotFound == "ErrNotFound"
EngineError == "EngineError"
Ok == "ok"
Colon == ":"

\* the registry: the ID a pull of the tag brings into the local catalog
RegistryID(tag) == IF tag = "foo" THEN "I1" ELSE IF tag = "ghost" THEN "I3" ELSE "I2"
\* the registry: the tags the pulled image carries in the local catalog; a pull
\* of "ghost" succeeds and leaves no image tagged "ghost"
RegistryTags(tag) == IF tag = "ghost" THEN <<"ghost:latest">> ELSE <<tag>>
\* what the image adds to a container created from it
ImageEntrypoint == <<"sh">>
ImageEnv == <<"P=x">>

(***************************************************************************)
(* String-slice helpers                                                    *)
(***************************************************************************)
equalStrSlice(a, b) ==
    /\ Len(a) = Len(b)
    /\ \A i \in 1..Len(a) : a[i] = b[i]

\* variant: the head of s is compared instead of its tail
hasSuffixStrSlice_Prefix(s, suffix) ==
    LET lenSuffix == Len(suffix)
        lenS == Len(s)
    IN  IF lenSuffix > lenS
        THEN FALSE
        ELSE equalStrSlice(SubSeq(s, 1, lenSuffix), suffix)

hasSuffixStrSlice(s, suffix) ==
    LET lenSuffix == Len(suffix)
        lenS == Len(s)
    IN  IF lenSuffix > lenS
        THEN FALSE
        ELSE equalStrSlice(SubSeq(s, lenS - lenSuffix + 1, lenS), suffix)

containsStr(all, target) == \E i \in 1..Len(all) : all[i] = target

\* variant: subset may not be longer than big
strSliceSubset_NoLonger(big, subset) ==
    /\ Len(subset) <= Len(big)
    /\ \A i \in 1..Len(subset) : containsStr(big, subset[i])

strSliceSubset(big, subset) ==
    \A i \in 1..Len(subset) : containsStr(big, subset[i])

RECURSIVE SeqOfSet(_)
SeqOfSet(S) ==
    IF S = {} THEN <<>>
    ELSE LET x == CHOOSE y \in S : TRUE IN <<x>> \o SeqOfSet(S \ {x})

\* volumes is a map destination -> source, held as a set of <<k, v>> pairs.
\* make([]string, len(volumes)) starts res with len(volumes) empty strings and
\* append adds v+":"+k after them; Go's map order is unspecified, and the only
\* use of the result is containsStr, which does not depend on the order.
flattenVolumes(volumes) ==
    LET n == Cardinality(volumes)
        kv == SeqOfSet(volumes)
    IN  [i \in 1..n |-> <<>>] \o [i \in 1..n |-> <<kv[i][2]>> \o <<Colon>> \o <<kv[i][1]>>]

\* strings.Split(link, ":")[0]
SplitHead(link) == IF link = <<>> \/ link[1] = Colon THEN "" ELSE link[1]

(***************************************************************************)
(* The engine (dockerclient.Client), executing each call faithfully        *)
(***************************************************************************)
TaggedAt(tag) == {j \in 1..Len(images) : containsStr(images[j].RepoTags, tag)}
ImageLocal(tag) == TaggedAt(tag) # {}
FirstTagged(tag) == CHOOSE j \in TaggedAt(tag) : \A k \in TaggedAt(tag) : j <= k

EngineInspect(name) == containers[name]

NameOfId(id) == {n \in Names : containers[n] # NoContainer /\ containers[n].Id = id}

EngineCreated(config, name) ==
    [containers EXCEPT ![name] =
        [Id |-> nextId,
         Running |-> FALSE,
         Image |-> images[FirstTagged(config.image)].Id,
         HostConfig |-> NilHostConfig,
         Cmd |-> ImageEntrypoint \o config.cmd,
         Env |-> ImageEnv \o config.env,
         Volumes |-> {}]]

BindPairs(binds) == {<<binds[i][3], binds[i][1]>> : i \in 1..Len(binds)}

EngineStarted(id, hostConfig) ==
    LET n == CHOOSE x \in NameOfId(id) : TRUE
        old == containers[n]
    IN  [containers EXCEPT ![n] =
            IF hostConfig = NilHostConfig
            THEN [old EXCEPT !.Running = TRUE]
            ELSE [old EXCEPT !.Running = TRUE,
                             !.HostConfig = [Dns |-> hostConfig.Dns],
                             !.Volumes =
                                {p \in old.Volumes :
                                    \A q \in BindPairs(hostConfig.Binds) : q[1] # p[1]}
                                \cup BindPairs(hostConfig.Binds)]]

EngineRemoved(id) ==
    [n \in Names |-> IF n \in NameOfId(id) THEN NoContainer ELSE containers[n]]

EnginePulled(tag) ==
    IF ImageLocal(tag) \/ \E j \in 1..Len(images) : images[j].Id = RegistryID(tag)
    THEN images
    ELSE Append(images, [Id |-> RegistryID(tag), RepoTags |-> RegistryTags(tag)])

(***************************************************************************)
(* The log                                                                 *)
(***************************************************************************)
Entry(op, id, res) ==
    [call |-> callNo, by |-> c.name, op |-> op, id |-> id, res |-> res,
     hostConfig |-> NilHostConfig, force |-> FALSE, removeVolumes |-> FALSE]
Logged(op, id, res) == log' = Append(log, Entry(op, id, res))
\* StartContainer(id, hostConfig): the log keeps the second argument too
LoggedStart(id, hostConfig, res) ==
    log' = Append(log, [Entry("StartContainer", id, res) EXCEPT !.hostConfig = hostConfig])

\* RemoveContainer(id, force, volumes): the log keeps the two flags too
LoggedRemove(id, force, volumes, res) ==
    log' = Append(log, [Entry("RemoveContainer", id, res)
                           EXCEPT !.force = force, !.removeVolumes = volumes])

Return(r) ==
    /\ pc' = "done"
    /\ returned' = Append(returned, r)

(***************************************************************************)
(* dockerutil.ImageID and the five checks of checkExisting                 *)
(***************************************************************************)
\* imageIDFromList's scan of the list ListImages returned; "" when no tag matches
imageIDFromList(list, imageName) ==
    LET hits == {j \in 1..Len(list) : containsStr(list[j].RepoTags, imageName)}
    IN  IF hits = {} THEN ""
        ELSE list[CHOOSE j \in hits : \A k \in hits : j <= k].Id

Check(ok, err) == [ok |-> ok, err |-> err]

\* variant: a mismatch always asks for a replacement
Mismatch_Ungated(spec, axis) == Check(FALSE, NoErr)

\* the policy every axis applies to a mismatch
Mismatch(spec, axis) ==
    IF ~spec.removeExisting
    THEN Check(FALSE, "mismatch:" \o axis)
    ELSE Check(FALSE, NoErr)

checkExistingImage(spec, current, id) ==
    IF current.Image # id THEN Mismatch(spec, "image") ELSE Check(TRUE, NoErr)

\* variant: a DNS mismatch is an error whatever removeExisting says
checkExistingDNS_AlwaysError(spec, current) ==
    LET desiredDNS == IF spec.hostConfig # NilHostConfig THEN spec.hostConfig.Dns ELSE <<>>
        currentDNS == IF current.HostConfig # NilHostConfig THEN current.HostConfig.Dns ELSE <<>>
    IN  IF ~equalStrSlice(currentDNS, desiredDNS)
        THEN Check(FALSE, "mismatch:DNS")
        ELSE Check(TRUE, NoErr)

checkExistingDNS(spec, current) ==
    LET desiredDNS == IF spec.hostConfig # NilHostConfig THEN spec.hostConfig.Dns ELSE <<>>
        currentDNS == IF current.HostConfig # NilHostConfig THEN current.HostConfig.Dns ELSE <<>>
    IN  IF ~equalStrSlice(currentDNS, desiredDNS)
        THEN Mismatch(spec, "DNS")
        ELSE Check(TRUE, NoErr)

\* variant: the command is compared for equality
checkExistingCmd_Equal(spec, current) ==
    IF ~equalStrSlice(current.Cmd, spec.cmd)
    THEN Mismatch(spec, "command")
    ELSE Check(TRUE, NoErr)

checkExistingCmd(spec, current) ==
    IF ~hasSuffixStrSlice(current.Cmd, spec.cmd)
    THEN Mismatch(spec, "command")
    ELSE Check(TRUE, NoErr)

checkExistingEnv(spec, current) ==
    IF ~strSliceSubset(current.Env, spec.env)
    THEN Mismatch(spec, "env")
    ELSE Check(TRUE, NoErr)

checkExistingBinds(spec, current) ==
    IF /\ spec.hostConfig # NilHostConfig
       /\ ~strSliceSubset(flattenVolumes(current.Volumes), spec.hostConfig.Binds)
    THEN Mismatch(spec, "volumes")
    ELSE Check(TRUE, NoErr)

Failed(r) == ~r.ok \/ r.err # NoErr

\* variant: only the image is checked
checkExisting_ImageOnly(spec, current, id) ==
    LET r1 == checkExistingImage(spec, current, id)
    IN  IF Failed(r1) THEN Check(FALSE, r1.err) ELSE Check(TRUE, NoErr)

\* checkExisting, from the point where ImageID has returned id
checkExisting(spec, current, id) ==
    LET r1 == checkExistingImage(spec, current, id)
        r2 == checkExistingDNS(spec, current)
        r3 == checkExistingCmd(spec, current)
        r4 == checkExistingEnv(spec, current)
        r5 == checkExistingBinds(spec, current)
    IN  IF Failed(r1) THEN Check(FALSE, r1.err)
        ELSE IF Failed(r2) THEN Check(FALSE, r2.err)
        ELSE IF Failed(r3) THEN Check(FALSE, r3.err)
        ELSE IF Failed(r4) THEN Check(FALSE, r4.err)
        ELSE IF Failed(r5) THEN Check(FALSE, r5.err)
        ELSE Check(TRUE, NoErr)

(***************************************************************************)
(* Container.Apply, one engine call per step                               *)
(***************************************************************************)
\* the caller's invocation c.Apply(docker)
ApplyEnter(spec) ==
    /\ c' = spec
    /\ pc' = "inspect"
    /\ ci' = NoContainer
    /\ createIt' = FALSE
    /\ UNCHANGED returned
    /\ callNo' = callNo + 1
    /\ pre' = [containers |-> containers, images |-> images]

\* variant: a matching container is taken as it is, running or not
ApplyChecked_NoStart(r) ==
    IF r.err # NoErr THEN Return(r.err)
    ELSE IF r.ok THEN Return(Ok)
         ELSE pc' = "remove" /\ UNCHANGED returned

\* variant: a matching container is started even when it runs
ApplyChecked_AlwaysStart(r) ==
    IF r.err # NoErr THEN Return(r.err)
    ELSE IF r.ok THEN pc' = "start" /\ UNCHANGED returned
         ELSE pc' = "remove" /\ UNCHANGED returned

\* variant: a matching container that does not run is replaced
ApplyChecked_ReplaceStopped(r) ==
    IF r.err # NoErr THEN Return(r.err)
    ELSE IF r.ok /\ ci.Running THEN Return(Ok)
         ELSE pc' = "remove" /\ UNCHANGED returned

\* Apply's branch on what checkExisting returned
ApplyChecked(r) ==
    IF r.err # NoErr THEN Return(r.err)
    ELSE IF r.ok
         THEN IF ci.Running THEN Return(Ok)
              ELSE pc' = "start" /\ UNCHANGED returned
         ELSE pc' = "remove" /\ UNCHANGED returned

\* variant: the hook runs whether or not the container was created by this call
ApplyStarted_AnyHook ==
    IF c.afterCreate
    THEN pc' = "afterCreate" /\ UNCHANGED returned
    ELSE Return(Ok)

\* Apply's branch once StartContainer has succeeded
ApplyStarted ==
    IF createIt /\ c.afterCreate
    THEN pc' = "afterCreate" /\ UNCHANGED returned
    ELSE Return(Ok)

\* variant: forceRemoveExisting is not consulted
AfterInspect_NoForce(spec) == "imageID"

\* Apply's branch on a container that exists
AfterInspect(spec) ==
    IF spec.forceRemoveExisting THEN "forceRemove" ELSE "imageID"

\* variant: a not-found of the first InspectContainer is returned as an error
ApplyInspect_NotFoundIsError ==
    /\ pc = "inspect"
    /\ UNCHANGED graphVars
    /\ UNCHANGED twoVars
    /\ UNCHANGED newVars
    /\ UNCHANGED fnVars
    /\ \E r \in {Ok, EngineError} :
          LET info == EngineInspect(c.name) IN
          IF r = EngineError
          THEN /\ Logged("InspectContainer", 0, EngineError)
               /\ Return(EngineError)
               /\ UNCHANGED <<ci, createIt>>
          ELSE IF info = NoContainer
          THEN /\ Logged("InspectContainer", 0, ErrNotFound)
               /\ Return(ErrNotFound)
               /\ UNCHANGED <<ci, createIt>>
          ELSE /\ Logged("InspectContainer", info.Id, Ok)
               /\ ci' = info
               /\ pc' = AfterInspect(c)
               /\ UNCHANGED <<createIt, returned>>
    /\ UNCHANGED <<c, callNo, pre>>
    /\ UNCHANGED engineVars

\* variant: every Apply inspects the container of one and the same name
ApplyInspect_SharedName ==
    /\ pc = "inspect"
    /\ UNCHANGED graphVars
    /\ UNCHANGED twoVars
    /\ UNCHANGED newVars
    /\ UNCHANGED fnVars
    /\ \E r \in {Ok, EngineError} :
          LET info == EngineInspect("a") IN
          IF r = EngineError
          THEN /\ Logged("InspectContainer", 0, EngineError)
               /\ Return(EngineError)
               /\ UNCHANGED <<ci, createIt>>
          ELSE IF info = NoContainer
          THEN /\ Logged("InspectContainer", 0, ErrNotFound)
               /\ createIt' = TRUE
               /\ pc' = "create"
               /\ UNCHANGED <<ci, returned>>
          ELSE /\ Logged("InspectContainer", info.Id, Ok)
               /\ ci' = info
               /\ pc' = AfterInspect(c)
               /\ UNCHANGED <<createIt, returned>>
    /\ UNCHANGED <<c, callNo, pre>>
    /\ UNCHANGED engineVars

ApplyInspect ==
    /\ pc = "inspect"
    /\ UNCHANGED graphVars
    /\ UNCHANGED twoVars
    /\ UNCHANGED newVars
    /\ UNCHANGED fnVars
    /\ \E r \in {Ok, EngineError} :
          LET info == EngineInspect(c.name) IN
          IF r = EngineError
          THEN /\ Logged("InspectContainer", 0, EngineError)
               /\ Return(EngineError)
               /\ UNCHANGED <<ci, createIt>>
          ELSE IF info = NoContainer
          THEN /\ Logged("InspectContainer", 0, ErrNotFound)
               /\ createIt' = TRUE
               /\ pc' = "create"
               /\ UNCHANGED <<ci, returned>>
          ELSE /\ Logged("InspectContainer", info.Id, Ok)
               /\ ci' = info
               /\ pc' = AfterInspect(c)
               /\ UNCHANGED <<createIt, returned>>
    /\ UNCHANGED <<c, callNo, pre>>
    /\ UNCHANGED engineVars

ApplyForceRemove ==
    /\ pc = "forceRemove"
    /\ UNCHANGED graphVars
    /\ UNCHANGED twoVars
    /\ UNCHANGED newVars
    /\ UNCHANGED fnVars
    /\ \E r \in {Ok, EngineError} :
          IF r = EngineError
          THEN /\ LoggedRemove(ci.Id, TRUE, FALSE, EngineError)
               /\ Return(EngineError)
               /\ UNCHANGED <<createIt, containers>>
          ELSE /\ LoggedRemove(ci.Id, TRUE, FALSE, Ok)
               /\ containers' = EngineRemoved(ci.Id)
               /\ createIt' = TRUE
               /\ pc' = "create"
               /\ UNCHANGED returned
    /\ UNCHANGED <<c, ci, callNo, pre, images, nextId>>

\* variant: the image is pulled whether or not the list holds the tag
ImageIDList_AlwaysPull ==
    /\ pc = "imageID"
    /\ UNCHANGED graphVars
    /\ UNCHANGED twoVars
    /\ UNCHANGED newVars
    /\ UNCHANGED fnVars
    /\ \E r \in {Ok, EngineError} :
          IF r = EngineError
          THEN /\ Logged("ListImages", 0, EngineError)
               /\ Return(EngineError)
          ELSE /\ Logged("ListImages", 0, Ok)
               /\ pc' = "imageIDPull"
               /\ UNCHANGED returned
    /\ UNCHANGED <<c, ci, createIt, callNo, pre>>
    /\ UNCHANGED engineVars

\* ImageID: the first imageIDFromList
ImageIDList ==
    /\ pc = "imageID"
    /\ UNCHANGED graphVars
    /\ UNCHANGED twoVars
    /\ UNCHANGED newVars
    /\ UNCHANGED fnVars
    /\ \E r \in {Ok, EngineError} :
          LET id == imageIDFromList(images, c.image) IN
          IF r = EngineError
          THEN /\ Logged("ListImages", 0, EngineError)
               /\ Return(EngineError)
          ELSE /\ Logged("ListImages", 0, Ok)
               /\ IF id # ""
                  THEN ApplyChecked(checkExisting(c, ci, id))
                  ELSE pc' = "imageIDPull" /\ UNCHANGED returned
    /\ UNCHANGED <<c, ci, createIt, callNo, pre>>
    /\ UNCHANGED engineVars

\* ImageID: the pull of an image the list does not hold
ImageIDPull ==
    /\ pc = "imageIDPull"
    /\ UNCHANGED graphVars
    /\ UNCHANGED twoVars
    /\ UNCHANGED newVars
    /\ UNCHANGED fnVars
    /\ \E r \in {Ok, EngineError} :
          IF r = EngineError
          THEN /\ Logged("PullImage", 0, EngineError)
               /\ Return(EngineError)
               /\ UNCHANGED images
          ELSE /\ Logged("PullImage", 0, Ok)
               /\ images' = EnginePulled(c.image)
               /\ pc' = "imageIDRelist"
               /\ UNCHANGED returned
    /\ UNCHANGED <<c, ci, createIt, callNo, pre, containers, nextId>>

\* ImageID: the second imageIDFromList
ImageIDRelist ==
    /\ pc = "imageIDRelist"
    /\ UNCHANGED graphVars
    /\ UNCHANGED twoVars
    /\ UNCHANGED newVars
    /\ UNCHANGED fnVars
    /\ \E r \in {Ok, EngineError} :
          LET id == imageIDFromList(images, c.image) IN
          IF r = EngineError
          THEN /\ Logged("ListImages", 0, EngineError)
               /\ Return(EngineError)
          ELSE /\ Logged("ListImages", 0, Ok)
               /\ IF id # ""
                  THEN ApplyChecked(checkExisting(c, ci, id))
                  ELSE Return("ImageNotIdentified")
    /\ UNCHANGED <<c, ci, createIt, callNo, pre>>
    /\ UNCHANGED engineVars

\* variant: the create path is taken whether or not the removal succeeded
ApplyRemove_FailureIgnored ==
    /\ pc = "remove"
    /\ UNCHANGED graphVars
    /\ UNCHANGED twoVars
    /\ UNCHANGED newVars
    /\ UNCHANGED fnVars
    /\ \E r \in {Ok, EngineError} :
          /\ IF r = EngineError
             THEN /\ LoggedRemove(ci.Id, TRUE, FALSE, EngineError)
                  /\ UNCHANGED containers
             ELSE /\ LoggedRemove(ci.Id, TRUE, FALSE, Ok)
                  /\ containers' = EngineRemoved(ci.Id)
          /\ createIt' = TRUE
          /\ pc' = "create"
          /\ UNCHANGED returned
    /\ UNCHANGED <<c, ci, callNo, pre, images, nextId>>

ApplyRemove ==
    /\ pc = "remove"
    /\ UNCHANGED graphVars
    /\ UNCHANGED twoVars
    /\ UNCHANGED newVars
    /\ UNCHANGED fnVars
    /\ \E r \in {Ok, EngineError} :
          IF r = EngineError
          THEN /\ LoggedRemove(ci.Id, TRUE, FALSE, EngineError)
               /\ Return(EngineError)
               /\ UNCHANGED <<createIt, containers>>
          ELSE /\ LoggedRemove(ci.Id, TRUE, FALSE, Ok)
               /\ containers' = EngineRemoved(ci.Id)
               /\ createIt' = TRUE
               /\ pc' = "create"
               /\ UNCHANGED returned
    /\ UNCHANGED <<c, ci, callNo, pre, images, nextId>>

\* what a faithful engine answers to CreateContainer(config, name)
CreateAnswer(spec) ==
    IF containers[spec.name] # NoContainer THEN EngineError
    ELSE IF ~ImageLocal(spec.image) THEN ErrNotFound
    ELSE Ok

\* variant: any failure of the first CreateContainer leads to the pull
CreateWithPullCreate_PullOnAnyError ==
    /\ pc = "create"
    /\ UNCHANGED graphVars
    /\ UNCHANGED twoVars
    /\ UNCHANGED newVars
    /\ UNCHANGED fnVars
    /\ \E r \in {CreateAnswer(c), EngineError} :
          IF r = Ok
          THEN /\ Logged("CreateContainer", nextId, Ok)
               /\ containers' = EngineCreated(c, c.name)
               /\ nextId' = nextId + 1
               /\ pc' = "reinspect"
               /\ UNCHANGED returned
          ELSE /\ Logged("CreateContainer", 0, r)
               /\ pc' = "pull"
               /\ UNCHANGED <<returned, containers, nextId>>
    /\ UNCHANGED <<c, ci, createIt, callNo, pre, images>>

\* CreateWithPull: the first CreateContainer
CreateWithPullCreate ==
    /\ pc = "create"
    /\ UNCHANGED graphVars
    /\ UNCHANGED twoVars
    /\ UNCHANGED newVars
    /\ UNCHANGED fnVars
    /\ \E r \in {CreateAnswer(c), EngineError} :
          IF r = Ok
          THEN /\ Logged("CreateContainer", nextId, Ok)
               /\ containers' = EngineCreated(c, c.name)
               /\ nextId' = nextId + 1
               /\ pc' = "reinspect"
               /\ UNCHANGED returned
          ELSE IF r = ErrNotFound
          THEN /\ Logged("CreateContainer", 0, ErrNotFound)
               /\ pc' = "pull"
               /\ UNCHANGED <<returned, containers, nextId>>
          ELSE /\ Logged("CreateContainer", 0, EngineError)
               /\ Return(EngineError)
               /\ UNCHANGED <<containers, nextId>>
    /\ UNCHANGED <<c, ci, createIt, callNo, pre, images>>

\* CreateWithPull: the pull after a not-found
CreateWithPullPull ==
    /\ pc = "pull"
    /\ UNCHANGED graphVars
    /\ UNCHANGED twoVars
    /\ UNCHANGED newVars
    /\ UNCHANGED fnVars
    /\ \E r \in {Ok, EngineError} :
          IF r = EngineError
          THEN /\ Logged("PullImage", 0, EngineError)
               /\ Return(EngineError)
               /\ UNCHANGED images
          ELSE /\ Logged("PullImage", 0, Ok)
               /\ images' = EnginePulled(c.image)
               /\ pc' = "recreate"
               /\ UNCHANGED returned
    /\ UNCHANGED <<c, ci, createIt, callNo, pre, containers, nextId>>

\* CreateWithPull: the second CreateContainer
CreateWithPullRecreate ==
    /\ pc = "recreate"
    /\ UNCHANGED graphVars
    /\ UNCHANGED twoVars
    /\ UNCHANGED newVars
    /\ UNCHANGED fnVars
    /\ \E r \in {CreateAnswer(c), EngineError} :
          IF r = Ok
          THEN /\ Logged("CreateContainer", nextId, Ok)
               /\ containers' = EngineCreated(c, c.name)
               /\ nextId' = nextId + 1
               /\ pc' = "reinspect"
               /\ UNCHANGED returned
          ELSE /\ Logged("CreateContainer", 0, r)
               /\ Return(r)
               /\ UNCHANGED <<containers, nextId>>
    /\ UNCHANGED <<c, ci, createIt, callNo, pre, images>>

\* the InspectContainer after CreateWithPull; the engine may answer not-found
\* for the container just created, as the mock of
\* TestApplyInspectAfterCreateError does
\* variant: a not-found of the second InspectContainer re-enters the create path
ApplyReinspect_CreateAgain ==
    /\ pc = "reinspect"
    /\ UNCHANGED graphVars
    /\ UNCHANGED twoVars
    /\ UNCHANGED newVars
    /\ UNCHANGED fnVars
    /\ \E r \in {Ok, EngineError, ErrNotFound} :
          LET info == EngineInspect(c.name) IN
          IF r = EngineError
          THEN /\ Logged("InspectContainer", 0, EngineError)
               /\ Return(EngineError)
               /\ UNCHANGED ci
          ELSE IF r = ErrNotFound \/ info = NoContainer
          THEN /\ Logged("InspectContainer", 0, ErrNotFound)
               /\ pc' = "create"
               /\ UNCHANGED <<ci, returned>>
          ELSE /\ Logged("InspectContainer", info.Id, Ok)
               /\ ci' = info
               /\ pc' = "start"
               /\ UNCHANGED returned
    /\ UNCHANGED <<c, createIt, callNo, pre>>
    /\ UNCHANGED engineVars

ApplyReinspect ==
    /\ pc = "reinspect"
    /\ UNCHANGED graphVars
    /\ UNCHANGED twoVars
    /\ UNCHANGED newVars
    /\ UNCHANGED fnVars
    /\ \E r \in {Ok, EngineError, ErrNotFound} :
          LET info == EngineInspect(c.name) IN
          IF r = EngineError
          THEN /\ Logged("InspectContainer", 0, EngineError)
               /\ Return(EngineError)
               /\ UNCHANGED ci
          ELSE IF r = ErrNotFound \/ info = NoContainer
          THEN /\ Logged("InspectContainer", 0, ErrNotFound)
               /\ Return(ErrNotFound)
               /\ UNCHANGED ci
          ELSE /\ Logged("InspectContainer", info.Id, Ok)
               /\ ci' = info
               /\ pc' = "start"
               /\ UNCHANGED returned
    /\ UNCHANGED <<c, createIt, callNo, pre>>
    /\ UNCHANGED engineVars

\* variant: a failed start of a container this call created is rolled back
ApplyStart_RollbackOnFailure ==
    /\ pc = "start"
    /\ UNCHANGED graphVars
    /\ UNCHANGED twoVars
    /\ UNCHANGED newVars
    /\ UNCHANGED fnVars
    /\ \E r \in {IF NameOfId(ci.Id) # {} THEN Ok ELSE EngineError, EngineError} :
          IF r = EngineError
          THEN /\ LoggedStart(ci.Id, c.hostConfig, EngineError)
               /\ IF createIt
                  THEN pc' = "rollback" /\ UNCHANGED returned
                  ELSE Return(EngineError)
               /\ UNCHANGED containers
          ELSE /\ LoggedStart(ci.Id, c.hostConfig, Ok)
               /\ containers' = EngineStarted(ci.Id, c.hostConfig)
               /\ ApplyStarted
    /\ UNCHANGED <<c, ci, createIt, callNo, pre, images, nextId>>

ApplyStart ==
    /\ pc = "start"
    /\ UNCHANGED graphVars
    /\ UNCHANGED twoVars
    /\ UNCHANGED newVars
    /\ UNCHANGED fnVars
    /\ \E r \in {IF NameOfId(ci.Id) # {} THEN Ok ELSE EngineError, EngineError} :
          IF r = EngineError
          THEN /\ LoggedStart(ci.Id, c.hostConfig, EngineError)
               /\ Return(EngineError)
               /\ UNCHANGED containers
          ELSE /\ LoggedStart(ci.Id, c.hostConfig, Ok)
               /\ containers' = EngineStarted(ci.Id, c.hostConfig)
               /\ ApplyStarted
    /\ UNCHANGED <<c, ci, createIt, callNo, pre, images, nextId>>

\* the afterCreate hook, which succeeds or fails as it pleases
ApplyAfterCreate ==
    /\ pc = "afterCreate"
    /\ UNCHANGED graphVars
    /\ UNCHANGED twoVars
    /\ UNCHANGED newVars
    /\ UNCHANGED fnVars
    /\ \E r \in {Ok, "HookError"} :
          IF r = Ok
          THEN /\ Logged("afterCreate", ci.Id, Ok)
               /\ Return(Ok)
          ELSE /\ Logged("afterCreate", ci.Id, "HookError")
               /\ pc' = "rollback"
               /\ UNCHANGED returned
    /\ UNCHANGED <<c, ci, createIt, callNo, pre>>
    /\ UNCHANGED engineVars

\* variant: a failed removal is reported instead of the hook's error
RollbackReturn_Surfaced(r) ==
    IF r = EngineError THEN Return(EngineError) ELSE Return("HookError")

\* what Apply returns after the removal that follows a failed hook answered r
RollbackReturn(r) == Return("HookError")

\* variant: the removal after a failed hook deletes the volumes too
ApplyRollback_WithVolumes ==
    /\ pc = "rollback"
    /\ UNCHANGED graphVars
    /\ UNCHANGED twoVars
    /\ UNCHANGED newVars
    /\ UNCHANGED fnVars
    /\ \E r \in {IF NameOfId(ci.Id) # {} THEN Ok ELSE EngineError, EngineError} :
          /\ IF r = EngineError
             THEN /\ LoggedRemove(ci.Id, TRUE, TRUE, EngineError)
                  /\ UNCHANGED containers
             ELSE /\ LoggedRemove(ci.Id, TRUE, TRUE, Ok)
                  /\ containers' = EngineRemoved(ci.Id)
          /\ RollbackReturn(r)
    /\ UNCHANGED <<c, ci, createIt, callNo, pre, images, nextId>>

\* the removal after a failed hook
ApplyRollback ==
    /\ pc = "rollback"
    /\ UNCHANGED graphVars
    /\ UNCHANGED twoVars
    /\ UNCHANGED newVars
    /\ UNCHANGED fnVars
    /\ \E r \in {IF NameOfId(ci.Id) # {} THEN Ok ELSE EngineError, EngineError} :
          /\ IF r = EngineError
             THEN /\ LoggedRemove(ci.Id, TRUE, FALSE, EngineError)
                  /\ UNCHANGED containers
             ELSE /\ LoggedRemove(ci.Id, TRUE, FALSE, Ok)
                  /\ containers' = EngineRemoved(ci.Id)
          /\ RollbackReturn(r)
    /\ UNCHANGED <<c, ci, createIt, callNo, pre, images, nextId>>

ApplyStep ==
    \/ ApplyInspect
    \/ ApplyForceRemove
    \/ ImageIDList
    \/ ImageIDPull
    \/ ImageIDRelist
    \/ ApplyRemove
    \/ CreateWithPullCreate
    \/ CreateWithPullPull
    \/ CreateWithPullRecreate
    \/ ApplyReinspect
    \/ ApplyStart
    \/ ApplyAfterCreate
    \/ ApplyRollback

(***************************************************************************)
(* SpecApply: one Container applied MaxApplyCalls times in succession      *)
(***************************************************************************)
Bind1 == <<"s", Colon, "d">>
HostConfigs ==
    {NilHostConfig, [Dns |-> <<"d1">>, Binds |-> <<Bind1>>, Links |-> <<>>]}

Containers(names, hostConfigs) ==
    [name : names, image : {"foo"}, cmd : {<<"run">>}, env : {<<"A=1">>},
     hostConfig : hostConfigs,
     removeExisting : BOOLEAN, forceRemoveExisting : BOOLEAN,
     afterCreate : BOOLEAN]

ContainerInfos ==
    [Id : {1}, Running : BOOLEAN, Image : {"I1", "I2"},
     HostConfig : {NilHostConfig, [Dns |-> <<"d1">>]},
     Cmd : {<<"sh", "run">>, <<"other">>},
     Env : {<<"P=x", "A=1">>, <<"P=x">>},
     Volumes : {{}, {<<"d", "s">>}}]

OtherImage == [Id |-> "I2", RepoTags |-> <<"bar">>]
FooImage == [Id |-> "I1", RepoTags |-> <<"foo", "foo:latest">>]
Catalogs == {<<OtherImage>>, <<OtherImage, FooImage>>}

GraphIdle ==
    /\ batch = <<>>
    /\ known = {}
    /\ started = {}
    /\ pending = <<>>
    /\ nextRound = <<>>
    /\ starting = <<>>
    /\ gi = 0
    /\ gpc = "none"
    /\ gres = [err |-> NoErr, name |-> "", link |-> <<>>]

FnIdle ==
    /\ farg = <<>>
    /\ fpc = "none"
    /\ evaluated = <<>>
    /\ fout = Check(FALSE, NoErr)

TwoIdle ==
    /\ other = NoApply
    /\ reference = NoReference

NewIdle ==
    /\ options = <<>>
    /\ oi = 0
    /\ nc = NilSpec
    /\ invoked = <<>>
    /\ npc = "none"
    /\ nres = [c |-> NilSpec, err |-> NoErr]

InitApply ==
    /\ c \in Containers({"a"}, HostConfigs)
    /\ \E info \in ContainerInfos \cup {NoContainer} :
          containers = [n \in Names |-> IF n = "a" THEN info ELSE NoContainer]
    /\ images \in Catalogs
    /\ nextId = 2
    /\ pc = "idle"
    /\ ci = NoContainer
    /\ createIt = FALSE
    /\ returned = <<>>
    /\ callNo = 0
    /\ pre = [containers |-> containers, images |-> images]
    /\ log = <<>>
    /\ GraphIdle
    /\ NewIdle
    /\ FnIdle
    /\ TwoIdle

\* the caller applies the same Container again
ApplyCall ==
    /\ pc \in {"idle", "done"}
    /\ callNo < MaxApplyCalls
    /\ ApplyEnter(c)
    /\ UNCHANGED log
    /\ UNCHANGED engineVars
    /\ UNCHANGED twoVars
    /\ UNCHANGED graphVars
    /\ UNCHANGED newVars
    /\ UNCHANGED fnVars

NextApply ==
    \/ ApplyCall
    \/ ApplyStep

SpecApply == InitApply /\ [][NextApply]_vars

(***************************************************************************)
(* SpecPull: the same, for an image the registry tags as asked ("foo") or  *)
(* one a pull leaves without the tag asked for ("ghost")                   *)
(***************************************************************************)
ImageNames == {"foo", "ghost"}

InitPull ==
    /\ \E spec \in Containers({"a"}, HostConfigs), img \in ImageNames :
          c = [spec EXCEPT !.image = img]
    /\ \E info \in ContainerInfos \cup {NoContainer} :
          containers = [n \in Names |-> IF n = "a" THEN info ELSE NoContainer]
    /\ images \in Catalogs
    /\ nextId = 2
    /\ pc = "idle"
    /\ ci = NoContainer
    /\ createIt = FALSE
    /\ returned = <<>>
    /\ callNo = 0
    /\ pre = [containers |-> containers, images |-> images]
    /\ log = <<>>
    /\ GraphIdle
    /\ NewIdle
    /\ FnIdle
    /\ TwoIdle

SpecPull == InitPull /\ [][NextApply]_vars

(***************************************************************************)
(* NewContainer                                                            *)
(***************************************************************************)
errNameMissing == "errNameMissing"
NilConfig == [nilConfig |-> TRUE]
NilAuth == [nilAuth |-> TRUE]

\* var c Container
ZeroContainer ==
    [name |-> "", containerConfig |-> NilConfig, hostConfig |-> NilHostConfig,
     removeExisting |-> FALSE, forceRemoveExisting |-> FALSE,
     authConfig |-> NilAuth, afterCreate |-> FALSE]

\* a ContainerOption: the field it assigns (or "none"), the name it assigns
\* when the field is the name, and the error it returns
ContainerOption(field, name, err) == [field |-> field, name |-> name, err |-> err]

ContainerName(name) == ContainerOption("name", name, NoErr)
ContainerRemoveExisting == ContainerOption("removeExisting", "", NoErr)
ContainerForceRemoveExisting == ContainerOption("forceRemoveExisting", "", NoErr)
ContainerConfig == ContainerOption("containerConfig", "", NoErr)
ContainerHostConfig == ContainerOption("hostConfig", "", NoErr)
ContainerAuthConfig == ContainerOption("authConfig", "", NoErr)
ContainerAfterCreate == ContainerOption("afterCreate", "", NoErr)

\* o(&c): what the option leaves in the container it is given
Configured(o, spec) ==
    CASE o.field = "name" -> [spec EXCEPT !.name = o.name]
      [] o.field = "removeExisting" -> [spec EXCEPT !.removeExisting = TRUE]
      [] o.field = "forceRemoveExisting" -> [spec EXCEPT !.forceRemoveExisting = TRUE]
      [] o.field = "containerConfig" ->
            [spec EXCEPT !.containerConfig = [Image |-> "foo"]]
      [] o.field = "hostConfig" ->
            [spec EXCEPT !.hostConfig = [Dns |-> <<"d1">>, Binds |-> <<>>, Links |-> <<>>]]
      [] o.field = "authConfig" -> [spec EXCEPT !.authConfig = [Username |-> "u"]]
      [] o.field = "afterCreate" -> [spec EXCEPT !.afterCreate = TRUE]
      [] OTHER -> spec

NewReturn(spec, err) ==
    /\ npc' = "returned"
    /\ nres' = [c |-> spec, err |-> err]

\* variant: an option's error is dropped and the loop goes on
NewContainerOption_KeepGoing ==
    /\ npc = "options"
    /\ oi <= Len(options)
    /\ invoked' = Append(invoked, options[oi])
    /\ nc' = Configured(options[oi], nc)
    /\ oi' = oi + 1
    /\ UNCHANGED <<npc, nres>>
    /\ UNCHANGED <<options, log>>
    /\ UNCHANGED engineVars
    /\ UNCHANGED twoVars
    /\ UNCHANGED applyVars
    /\ UNCHANGED graphVars
    /\ UNCHANGED fnVars

\* one turn of the loop over options
NewContainerOption ==
    /\ npc = "options"
    /\ oi <= Len(options)
    /\ invoked' = Append(invoked, options[oi])
    /\ nc' = Configured(options[oi], nc)
    /\ IF options[oi].err # NoErr
       THEN /\ NewReturn(NilSpec, options[oi].err)
            /\ UNCHANGED oi
       ELSE /\ oi' = oi + 1
            /\ UNCHANGED <<npc, nres>>
    /\ UNCHANGED <<options, log>>
    /\ UNCHANGED engineVars
    /\ UNCHANGED twoVars
    /\ UNCHANGED applyVars
    /\ UNCHANGED graphVars
    /\ UNCHANGED fnVars

\* variant: the name is not looked at
NewContainerNameCheck_Absent ==
    /\ npc = "options"
    /\ oi > Len(options)
    /\ NewReturn(nc, NoErr)
    /\ UNCHANGED <<options, oi, nc, invoked, log>>
    /\ UNCHANGED engineVars
    /\ UNCHANGED twoVars
    /\ UNCHANGED applyVars
    /\ UNCHANGED graphVars
    /\ UNCHANGED fnVars

\* after the loop: the name is required
NewContainerNameCheck ==
    /\ npc = "options"
    /\ oi > Len(options)
    /\ IF nc.name = ""
       THEN NewReturn(NilSpec, errNameMissing)
       ELSE NewReturn(nc, NoErr)
    /\ UNCHANGED <<options, oi, nc, invoked, log>>
    /\ UNCHANGED engineVars
    /\ UNCHANGED twoVars
    /\ UNCHANGED applyVars
    /\ UNCHANGED graphVars
    /\ UNCHANGED fnVars

(***************************************************************************)
(* SpecNew: NewContainer on a list of options, the package's own and the   *)
(* caller's, which may return an error                                     *)
(***************************************************************************)
givenErr == "givenErr"

ContainerOptions ==
    {ContainerName("a"), ContainerName(""), ContainerRemoveExisting,
     ContainerForceRemoveExisting, ContainerConfig, ContainerHostConfig,
     ContainerAuthConfig, ContainerAfterCreate,
     ContainerOption("none", "", givenErr), ContainerOption("name", "a", givenErr)}

OptionLists == UNION {[1..n -> ContainerOptions] : n \in 0..MaxOptions}

InitNew ==
    /\ options \in OptionLists
    /\ oi = 1
    /\ nc = ZeroContainer
    /\ invoked = <<>>
    /\ npc = "options"
    /\ nres = [c |-> NilSpec, err |-> NoErr]
    /\ containers = [n \in Names |-> NoContainer]
    /\ images = <<>>
    /\ nextId = 1
    /\ c = NilSpec
    /\ pc = "idle"
    /\ ci = NoContainer
    /\ createIt = FALSE
    /\ returned = <<>>
    /\ callNo = 0
    /\ pre = [containers |-> containers, images |-> images]
    /\ log = <<>>
    /\ GraphIdle
    /\ FnIdle
    /\ TwoIdle

NextNew ==
    \/ NewContainerOption
    \/ NewContainerNameCheck

SpecNew == InitNew /\ [][NextNew]_vars

(***************************************************************************)
(* SpecSlices: the string-slice helpers on all slices of bounded length    *)
(***************************************************************************)
Strings == {"x", "y"}
Slices == UNION {[1..n -> Strings] : n \in 0..MaxLen}

InitSlices ==
    /\ farg \in [a : Slices, b : Slices]
    /\ fpc = "call"
    /\ evaluated = <<>>
    /\ fout = FALSE
    /\ containers = [n \in Names |-> NoContainer]
    /\ images = <<>>
    /\ nextId = 1
    /\ c = NilSpec
    /\ pc = "idle"
    /\ ci = NoContainer
    /\ createIt = FALSE
    /\ returned = <<>>
    /\ callNo = 0
    /\ pre = [containers |-> containers, images |-> images]
    /\ log = <<>>
    /\ GraphIdle
    /\ NewIdle
    /\ TwoIdle

\* the function under study returns r
Returns(name, r) ==
    /\ fpc' = name
    /\ fout' = r
    /\ UNCHANGED <<farg, evaluated, log>>
    /\ UNCHANGED engineVars
    /\ UNCHANGED twoVars
    /\ UNCHANGED applyVars
    /\ UNCHANGED graphVars
    /\ UNCHANGED newVars

CallHasSuffixStrSlice ==
    /\ fpc = "call"
    /\ Returns("hasSuffixStrSlice", hasSuffixStrSlice(farg.a, farg.b))

CallStrSliceSubset ==
    /\ fpc = "call"
    /\ Returns("strSliceSubset", strSliceSubset(farg.a, farg.b))

NextSlices ==
    \/ CallHasSuffixStrSlice
    \/ CallStrSliceSubset

SpecSlices == InitSlices /\ [][NextSlices]_vars

(***************************************************************************)
(* SpecCheck: checkExisting, one check per step, from the point where      *)
(* ImageID has returned the ID of the desired image                        *)
(***************************************************************************)
\* variant: a failed check does not end checkExisting
Checked_NoShortCircuit(axis, r, next) ==
    /\ evaluated' = Append(evaluated, axis)
    /\ IF next = "returned"
       THEN /\ fpc' = "returned"
            /\ fout' = IF Failed(r) THEN Check(FALSE, r.err) ELSE Check(TRUE, NoErr)
       ELSE /\ fpc' = next
            /\ UNCHANGED fout
    /\ UNCHANGED <<farg, log>>
    /\ UNCHANGED engineVars
    /\ UNCHANGED twoVars
    /\ UNCHANGED applyVars
    /\ UNCHANGED graphVars
    /\ UNCHANGED newVars

\* the check of one axis has returned r: checkExisting returns (false, err)
\* when it is not ok, goes on to the next check otherwise, and returns
\* (true, nil) after the last
Checked(axis, r, next) ==
    /\ evaluated' = Append(evaluated, axis)
    /\ IF Failed(r)
       THEN /\ fpc' = "returned"
            /\ fout' = Check(FALSE, r.err)
       ELSE IF next = "returned"
       THEN /\ fpc' = "returned"
            /\ fout' = Check(TRUE, NoErr)
       ELSE /\ fpc' = next
            /\ UNCHANGED fout
    /\ UNCHANGED <<farg, log>>
    /\ UNCHANGED engineVars
    /\ UNCHANGED twoVars
    /\ UNCHANGED applyVars
    /\ UNCHANGED graphVars
    /\ UNCHANGED newVars

StepImage ==
    /\ fpc = "image"
    /\ Checked("image", checkExistingImage(farg.spec, farg.current, farg.id), "DNS")

StepDNS ==
    /\ fpc = "DNS"
    /\ Checked("DNS", checkExistingDNS(farg.spec, farg.current), "command")

StepCmd ==
    /\ fpc = "command"
    /\ Checked("command", checkExistingCmd(farg.spec, farg.current), "env")

StepEnv ==
    /\ fpc = "env"
    /\ Checked("env", checkExistingEnv(farg.spec, farg.current), "volumes")

StepBinds ==
    /\ fpc = "volumes"
    /\ Checked("volumes", checkExistingBinds(farg.spec, farg.current), "returned")

Bind2 == <<"t", Colon, "e">>
EmptyBind == <<>>

DesiredHostConfigs ==
    {NilHostConfig}
    \cup [Dns : {<<>>, <<"d1">>, <<"d1", "d2">>},
          Binds : {<<>>, <<Bind1>>, <<EmptyBind>>, <<Bind1, Bind2>>},
          Links : {<<>>}]

Desired ==
    [name : {"a"}, image : {"foo"}, cmd : {<<>>, <<"run">>}, env : {<<"A=1">>},
     hostConfig : DesiredHostConfigs,
     removeExisting : BOOLEAN, forceRemoveExisting : {FALSE}, afterCreate : {FALSE}]

Observed ==
    [Id : {1}, Running : {TRUE}, Image : {"I1", "I2"},
     HostConfig : {NilHostConfig, [Dns |-> <<"d1">>], [Dns |-> <<"d1", "d2">>],
                   [Dns |-> <<"d2", "d1">>]},
     Cmd : {<<"sh", "run">>, <<"run", "sh">>, <<>>},
     Env : {<<"P=x", "A=1">>, <<"P=x">>},
     Volumes : {{}, {<<"d", "s">>}, {<<"d", "s">>, <<"e", "t">>}}]

InitCheck ==
    /\ farg \in [spec : Desired, current : Observed, id : {"I1"}]
    /\ fpc = "image"
    /\ evaluated = <<>>
    /\ fout = Check(FALSE, NoErr)
    /\ containers = [n \in Names |-> NoContainer]
    /\ images = <<>>
    /\ nextId = 1
    /\ c = NilSpec
    /\ pc = "idle"
    /\ ci = NoContainer
    /\ createIt = FALSE
    /\ returned = <<>>
    /\ callNo = 0
    /\ pre = [containers |-> containers, images |-> images]
    /\ log = <<>>
    /\ GraphIdle
    /\ NewIdle
    /\ TwoIdle

NextCheck ==
    \/ StepImage
    \/ StepDNS
    \/ StepCmd
    \/ StepEnv
    \/ StepBinds

SpecCheck == InitCheck /\ [][NextCheck]_vars

(***************************************************************************)
(* ApplyGraph                                                              *)
(***************************************************************************)
GResult(err, name, link) == [err |-> err, name |-> name, link |-> link]

RECURSIVE LinkScan(_, _, _, _)
\* the loop over c.hostConfig.Links, from link i on
LinkScan(links, i, knownNames, startedNames) ==
    IF i > Len(links) THEN [kind |-> "ready", link |-> <<>>]
    ELSE LET name == SplitHead(links[i]) IN
         IF name \notin knownNames THEN [kind |-> "unknown", link |-> links[i]]
         ELSE IF name \notin startedNames THEN [kind |-> "defer", link |-> links[i]]
         ELSE LinkScan(links, i + 1, knownNames, startedNames)

\* variant: a dependency that has not started does not defer the container
LinkDecision_NoDefer(spec, knownNames, startedNames) ==
    IF spec.hostConfig = NilHostConfig
    THEN [kind |-> "ready", link |-> <<>>]
    ELSE LinkScan(spec.hostConfig.Links, 1, knownNames, knownNames)

\* what pendingLoop decides for one pending container
LinkDecision(spec, knownNames, startedNames) ==
    IF spec.hostConfig = NilHostConfig
    THEN [kind |-> "ready", link |-> <<>>]
    ELSE LinkScan(spec.hostConfig.Links, 1, knownNames, startedNames)

\* ApplyGraph is called: known is filled, pending is the whole batch
GraphStart ==
    /\ gpc = "called"
    /\ known' = {batch[i].name : i \in 1..Len(batch)}
    /\ started' = {}
    /\ pending' = batch
    /\ gpc' = "round"
    /\ UNCHANGED <<batch, nextRound, starting, gi, gres, log>>
    /\ UNCHANGED applyVars
    /\ UNCHANGED twoVars
    /\ UNCHANGED engineVars
    /\ UNCHANGED newVars
    /\ UNCHANGED fnVars

\* the test of the round loop
GraphRound ==
    /\ gpc = "round"
    /\ IF Len(pending) > 0
       THEN /\ starting' = <<>>
            /\ nextRound' = <<>>
            /\ gi' = 1
            /\ gpc' = "pendingLoop"
            /\ UNCHANGED gres
       ELSE /\ gpc' = "done"
            /\ gres' = GResult(Ok, "", <<>>)
            /\ UNCHANGED <<starting, nextRound, gi>>
    /\ UNCHANGED <<batch, known, started, pending, log>>
    /\ UNCHANGED applyVars
    /\ UNCHANGED twoVars
    /\ UNCHANGED engineVars
    /\ UNCHANGED newVars
    /\ UNCHANGED fnVars

\* one pending container: its links are scanned, then it is deferred or applied
GraphPending ==
    /\ gpc = "pendingLoop"
    /\ gi <= Len(pending)
    /\ LET spec == pending[gi]
           d == LinkDecision(spec, known, started)
       IN  IF d.kind = "unknown"
           THEN /\ gpc' = "done"
                /\ gres' = GResult("UnknownLink", spec.name, d.link)
                /\ UNCHANGED <<nextRound, starting, gi>>
                /\ UNCHANGED applyVars
           ELSE IF d.kind = "defer"
           THEN /\ nextRound' = Append(nextRound, spec)
                /\ gi' = gi + 1
                /\ UNCHANGED <<starting, gpc, gres>>
                /\ UNCHANGED applyVars
           ELSE /\ starting' = Append(starting, spec.name)
                /\ ApplyEnter(spec)
                /\ gpc' = "applying"
                /\ UNCHANGED <<nextRound, gi, gres>>
    /\ UNCHANGED <<batch, known, started, pending, log>>
    /\ UNCHANGED engineVars
    /\ UNCHANGED twoVars
    /\ UNCHANGED newVars
    /\ UNCHANGED fnVars

\* variant: the error of c.Apply is dropped
GraphApplied_ErrorDropped ==
    /\ gpc = "applying"
    /\ pc = "done"
    /\ gpc' = "pendingLoop"
    /\ gi' = gi + 1
    /\ UNCHANGED gres
    /\ UNCHANGED <<batch, known, started, pending, nextRound, starting, log>>
    /\ UNCHANGED applyVars
    /\ UNCHANGED twoVars
    /\ UNCHANGED engineVars
    /\ UNCHANGED newVars
    /\ UNCHANGED fnVars

\* variant: a name is started as soon as its Apply has succeeded
GraphApplied_StartedAtOnce ==
    /\ gpc = "applying"
    /\ pc = "done"
    /\ IF returned[callNo] # Ok
       THEN /\ gpc' = "done"
            /\ gres' = GResult(returned[callNo], c.name, <<>>)
            /\ UNCHANGED <<gi, started>>
       ELSE /\ gpc' = "pendingLoop"
            /\ gi' = gi + 1
            /\ started' = started \cup {c.name}
            /\ UNCHANGED gres
    /\ UNCHANGED <<batch, known, pending, nextRound, starting, log>>
    /\ UNCHANGED applyVars
    /\ UNCHANGED twoVars
    /\ UNCHANGED engineVars
    /\ UNCHANGED newVars
    /\ UNCHANGED fnVars

\* variant: pendingLoop goes on without waiting for c.Apply to return
GraphApplied_NoWait ==
    /\ gpc = "applying"
    /\ gpc' = "pendingLoop"
    /\ gi' = gi + 1
    /\ UNCHANGED gres
    /\ UNCHANGED <<batch, known, started, pending, nextRound, starting, log>>
    /\ UNCHANGED applyVars
    /\ UNCHANGED twoVars
    /\ UNCHANGED engineVars
    /\ UNCHANGED newVars
    /\ UNCHANGED fnVars

\* c.Apply has returned
GraphApplied ==
    /\ gpc = "applying"
    /\ pc = "done"
    /\ IF returned[callNo] # Ok
       THEN /\ gpc' = "done"
            /\ gres' = GResult(returned[callNo], c.name, <<>>)
            /\ UNCHANGED gi
       ELSE /\ gpc' = "pendingLoop"
            /\ gi' = gi + 1
            /\ UNCHANGED gres
    /\ UNCHANGED <<batch, known, started, pending, nextRound, starting, log>>
    /\ UNCHANGED applyVars
    /\ UNCHANGED twoVars
    /\ UNCHANGED engineVars
    /\ UNCHANGED newVars
    /\ UNCHANGED fnVars

\* variant: the names of the round are not recorded as started
GraphRoundEnd_NothingStarted ==
    /\ gpc = "pendingLoop"
    /\ gi > Len(pending)
    /\ pending' = nextRound
    /\ gpc' = "round"
    /\ UNCHANGED <<batch, known, started, nextRound, starting, gi, gres, log>>
    /\ UNCHANGED applyVars
    /\ UNCHANGED twoVars
    /\ UNCHANGED engineVars
    /\ UNCHANGED newVars
    /\ UNCHANGED fnVars

\* variant: a round that applied nothing ends ApplyGraph with an error
GraphRoundEnd_CycleDetected ==
    /\ gpc = "pendingLoop"
    /\ gi > Len(pending)
    /\ started' = started \cup {starting[i] : i \in 1..Len(starting)}
    /\ pending' = nextRound
    /\ IF starting = <<>>
       THEN gpc' = "done" /\ gres' = GResult("LinkCycle", "", <<>>)
       ELSE gpc' = "round" /\ UNCHANGED gres
    /\ UNCHANGED <<batch, known, nextRound, starting, gi, log>>
    /\ UNCHANGED applyVars
    /\ UNCHANGED twoVars
    /\ UNCHANGED engineVars
    /\ UNCHANGED newVars
    /\ UNCHANGED fnVars

\* the round is over: its names are started, the deferred containers are pending
GraphRoundEnd ==
    /\ gpc = "pendingLoop"
    /\ gi > Len(pending)
    /\ started' = started \cup {starting[i] : i \in 1..Len(starting)}
    /\ pending' = nextRound
    /\ gpc' = "round"
    /\ UNCHANGED <<batch, known, nextRound, starting, gi, gres, log>>
    /\ UNCHANGED applyVars
    /\ UNCHANGED twoVars
    /\ UNCHANGED engineVars
    /\ UNCHANGED newVars
    /\ UNCHANGED fnVars

(***************************************************************************)
(* Spec: ApplyGraph on a batch of containers with links                    *)
(***************************************************************************)
LinkTargets == Names \cup {"zz"}
Link(target) == <<target, Colon, "al">>

\* link lists without repetition, of at most n links
LinkLists(n) ==
    UNION {{[i \in 1..k |-> Link(f[i])] :
                f \in {g \in [1..k -> LinkTargets] :
                          \A x, y \in 1..k : x # y => g[x] # g[y]}} :
           k \in 0..n}

\* the flags the containers of a batch share
Cautious ==
    [removeExisting |-> FALSE, forceRemoveExisting |-> FALSE, afterCreate |-> FALSE]
Replacing ==
    [removeExisting |-> TRUE, forceRemoveExisting |-> FALSE, afterCreate |-> FALSE]
Forcing ==
    [removeExisting |-> FALSE, forceRemoveExisting |-> TRUE, afterCreate |-> TRUE]
Profiles == {Cautious, Replacing, Forcing}

GraphContainer(name, links, profile) ==
    [name |-> name, image |-> "foo", cmd |-> <<"run">>, env |-> <<"A=1">>,
     hostConfig |-> IF links = <<>> THEN NilHostConfig
                    ELSE [Dns |-> <<>>, Binds |-> <<>>, Links |-> links],
     removeExisting |-> profile.removeExisting,
     forceRemoveExisting |-> profile.forceRemoveExisting,
     afterCreate |-> profile.afterCreate]

\* orders of distinct names
NameOrders ==
    UNION {{f \in [1..k -> Names] : \A x, y \in 1..k : x # y => f[x] # f[y]} :
           k \in 0..Cardinality(Names)}

TotalLinks(lists) ==
    LET RECURSIVE Sum(_)
        Sum(i) == IF i = 0 THEN 0 ELSE Len(lists[i]) + Sum(i - 1)
    IN  Sum(Len(lists))

Batches(profile) ==
    UNION {{[i \in 1..Len(order) |-> GraphContainer(order[i], lists[i], profile)] :
                lists \in {l \in [1..Len(order) -> LinkLists(MaxLinks)] :
                              TotalLinks(l) <= MaxTotalLinks}} :
           order \in NameOrders}

HealthyInfo(id) ==
    [Id |-> id, Running |-> TRUE, Image |-> "I1", HostConfig |-> NilHostConfig,
     Cmd |-> <<"sh", "run">>, Env |-> <<"P=x", "A=1">>, Volumes |-> {}]
StaleInfo(id) ==
    [Id |-> id, Running |-> FALSE, Image |-> "I1", HostConfig |-> NilHostConfig,
     Cmd |-> <<"other">>, Env |-> <<"P=x", "A=1">>, Volumes |-> {}]
IdOfName(n) == IF n = "a" THEN 1 ELSE IF n = "b" THEN 2 ELSE 3

\* the engine before ApplyGraph: nothing there, everything healthy, or everything stale
EmptyEngine ==
    [containers |-> [n \in Names |-> NoContainer], images |-> <<OtherImage>>]
HealthyEngine ==
    [containers |-> [n \in Names |-> HealthyInfo(IdOfName(n))],
     images |-> <<OtherImage, FooImage>>]
StaleEngine ==
    [containers |-> [n \in Names |-> StaleInfo(IdOfName(n))], images |-> <<OtherImage>>]
Engines == {EmptyEngine, HealthyEngine, StaleEngine}

\* the flags and the engine of a run: the pairs in which Apply behaves
\* differently (removeExisting is consulted only on a stale container, and
\* forceRemoveExisting removes a healthy container as it does a stale one)
Situations ==
    {s \in Profiles \X Engines :
        s \in {<<Cautious, EmptyEngine>>, <<Cautious, HealthyEngine>>,
               <<Cautious, StaleEngine>>, <<Replacing, StaleEngine>>,
               <<Forcing, HealthyEngine>>}}

Init ==
    /\ \E s \in Situations :
          /\ batch \in Batches(s[1])
          /\ containers = s[2].containers
          /\ images = s[2].images
    /\ nextId = 4
    /\ c = NilSpec
    /\ pc = "idle"
    /\ ci = NoContainer
    /\ createIt = FALSE
    /\ returned = <<>>
    /\ callNo = 0
    /\ pre = [containers |-> containers, images |-> images]
    /\ log = <<>>
    /\ known = {}
    /\ started = {}
    /\ pending = <<>>
    /\ nextRound = <<>>
    /\ starting = <<>>
    /\ gi = 0
    /\ gpc = "called"
    /\ gres = GResult(NoErr, "", <<>>)
    /\ NewIdle
    /\ FnIdle
    /\ TwoIdle

Next ==
    \/ GraphStart
    \/ GraphRound
    \/ GraphPending
    \/ GraphApplied
    \/ GraphRoundEnd
    \/ ApplyStep

Spec == Init /\ [][Next]_vars

\* ApplyGraph runs in the caller's goroutine and every engine call and hook
\* returns: a step that can be taken is taken
FairSpec == Spec /\ WF_vars(Next)

(***************************************************************************)
(* Properties of Apply (checked under SpecApply)                           *)
(***************************************************************************)
Range(f) == {f[i] : i \in DOMAIN f}
CallIdx(k) == {i \in 1..Len(log) : log[i].call = k}
CallLog(k) == SelectSeq(log, LAMBDA e : e.call = k)
IsMutation(e) == e.op \in {"RemoveContainer", "CreateContainer", "StartContainer"}
Mutations(k) == SelectSeq(CallLog(k), IsMutation)
\* no engine call of call k failed: none answered EngineError, and the
\* InspectContainer after a create did not answer not-found
NoEngineFailure(k) ==
    \A i \in CallIdx(k) :
        /\ log[i].res # EngineError
        /\ ~(/\ log[i].op = "InspectContainer"
             /\ log[i].res = ErrNotFound
             /\ \E j \in CallIdx(k) : j < i)
NoHookFailure(k) == \A i \in CallIdx(k) : log[i].res # "HookError"
Finished == pc = "done" /\ callNo >= 1
Found == pre.containers[c.name]
Existed == Found # NoContainer

\* the ID the desired image name stands for: the local catalog's, else the registry's
TagID(imgs, tag) ==
    IF \E j \in 1..Len(imgs) : tag \in Range(imgs[j].RepoTags)
    THEN imgs[CHOOSE j \in 1..Len(imgs) :
                /\ tag \in Range(imgs[j].RepoTags)
                /\ \A k \in 1..(j - 1) : tag \notin Range(imgs[k].RepoTags)].Id
    ELSE RegistryID(tag)

DnsOf(hc) == IF hc = NilHostConfig THEN <<>> ELSE hc.Dns

\* the axes on which an observed container differs from the desired one
DifferingAxes(spec, info, imgs) ==
    {ax \in {"image", "DNS", "command", "env", "volumes"} :
        \/ ax = "image" /\ info.Image # TagID(imgs, spec.image)
        \/ ax = "DNS" /\ DnsOf(info.HostConfig) # DnsOf(spec.hostConfig)
        \/ ax = "command" /\ ~(\E n \in 0..Len(info.Cmd) :
                                  info.Cmd = SubSeq(info.Cmd, 1, n) \o spec.cmd)
        \/ ax = "env" /\ ~(Range(spec.env) \subseteq Range(info.Env))
        \/ ax = "volumes" /\ spec.hostConfig # NilHostConfig
                          /\ ~(Range(spec.hostConfig.Binds) \subseteq
                                  {<<p[2], Colon, p[1]>> : p \in info.Volumes})}

\* C3: whenever Apply returns success, a container with the spec's name exists
\* in the engine and is running, whatever the initial engine state and flags.
C3_ApplyReachesDesiredState ==
    (Finished /\ returned[callNo] = Ok) =>
        /\ containers[c.name] # NoContainer
        /\ containers[c.name].Running

C3_Witness ==
    /\ Finished
    /\ returned[callNo] = Ok
    /\ Existed /\ ~Found.Running
    /\ \E i \in CallIdx(callNo) : log[i].op = "StartContainer" /\ log[i].res = Ok

Quiet(k) ==
    /\ returned[k] = Ok
    /\ \A i \in CallIdx(k) :
          log[i].op \notin {"RemoveContainer", "CreateContainer", "StartContainer",
                            "PullImage", "afterCreate"}

\* C4 as stated: for every spec, an Apply that follows a successful Apply (the
\* engine answering every call) succeeds and issues no remove, create, start or
\* pull and does not invoke afterCreate.
C4_IdempotentForEverySpec ==
    \A k \in 2..Len(returned) :
        (returned[k - 1] = Ok /\ NoEngineFailure(k)) => Quiet(k)

\* C4 amended: the same, for specs whose forceRemoveExisting is false.
C4_IdempotentUnlessForced ==
    \A k \in 2..Len(returned) :
        (~c.forceRemoveExisting /\ returned[k - 1] = Ok /\ NoEngineFailure(k)) => Quiet(k)

C4_Witness ==
    /\ Len(returned) >= 2
    /\ ~c.forceRemoveExisting
    /\ returned[1] = Ok
    /\ \E i \in CallIdx(1) : log[i].op = "CreateContainer" /\ log[i].res = Ok
    /\ Quiet(2)

\* C5: with forceRemoveExisting false, a container that exists, matches on all
\* five axes and is running makes Apply return success without any remove,
\* create or start, and leaves the engine's containers as they were.
C5_HealthyContainerUntouched ==
    (/\ Finished
     /\ ~c.forceRemoveExisting
     /\ Existed
     /\ Found.Running
     /\ DifferingAxes(c, Found, pre.images) = {}
     /\ NoEngineFailure(callNo))
    => /\ returned[callNo] = Ok
       /\ Mutations(callNo) = <<>>
       /\ containers = pre.containers

C5_Witness ==
    /\ Finished
    /\ callNo = 1
    /\ ~c.forceRemoveExisting
    /\ Existed
    /\ Found.Running
    /\ DifferingAxes(c, Found, pre.images) = {}
    /\ returned[callNo] = Ok

ReplacedInOrder(k) ==
    LET m == Mutations(k)
        L == CallLog(k)
    IN  /\ returned[k] = Ok
        /\ Len(m) = 3
        /\ m[1].op = "RemoveContainer" /\ m[1].id = Found.Id
        /\ m[2].op = "CreateContainer"
        /\ m[3].op = "StartContainer"
        /\ \E i \in 2..Len(L) :
              /\ L[i] = m[3]
              /\ L[i - 1].op = "InspectContainer"
              /\ L[i - 1].res = Ok
              /\ L[i - 1].id = m[3].id

C8_ForceRemoveIsUnconditional ==
    (callNo >= 1 /\ c.forceRemoveExisting /\ Existed) =>
        LET L == CallLog(callNo) IN
        /\ Len(L) >= 2 => L[2].op = "RemoveContainer" /\ L[2].id = Found.Id
        /\ \A i \in 1..Len(L) : L[i].op # "ListImages"
        /\ \A i \in 1..Len(L) :
              L[i].op = "StartContainer" =>
                 /\ L[i].id # Found.Id
                 /\ L[i - 1].op = "InspectContainer"
                 /\ L[i - 1].res = Ok
                 /\ L[i - 1].id = L[i].id
                 /\ \E j \in 1..(i - 1) : L[j].op = "CreateContainer" /\ L[j].res = Ok
        /\ (pc = "done" /\ NoEngineFailure(callNo)) =>
              \E i, j, k \in 1..Len(L) :
                 /\ i < j /\ j < k
                 /\ L[i].op = "RemoveContainer" /\ L[i].res = Ok
                 /\ L[j].op = "CreateContainer" /\ L[j].res = Ok
                 /\ L[k].op = "StartContainer" /\ L[k].res = Ok

C8_Witness ==
    /\ Finished
    /\ callNo = 1
    /\ c.forceRemoveExisting
    /\ Existed
    /\ Found.Running
    /\ DifferingAxes(c, Found, pre.images) = {}
    /\ returned[callNo] = Ok
    /\ containers[c.name].Id # Found.Id

\* C9: in any Apply call the hook is invoked at most once, only after a
\* successful create, re-inspect and start of this call, in that order, and
\* with the re-inspected ID; never when an existing container is reused.
C9_AfterCreateOnlyForNewContainer ==
    \A k \in 1..callNo :
        LET L == CallLog(k) IN
        /\ Cardinality({i \in 1..Len(L) : L[i].op = "afterCreate"}) <= 1
        /\ \A i \in 1..Len(L) :
              L[i].op = "afterCreate" =>
                 /\ i >= 4
                 /\ L[i - 1].op = "StartContainer" /\ L[i - 1].res = Ok
                 /\ L[i - 1].id = L[i].id
                 /\ L[i - 2].op = "InspectContainer" /\ L[i - 2].res = Ok
                 /\ L[i - 2].id = L[i].id
                 /\ L[i - 3].op = "CreateContainer" /\ L[i - 3].res = Ok

C9_Witness ==
    /\ Finished
    /\ returned[callNo] = Ok
    /\ \E i \in CallIdx(callNo) : log[i].op = "afterCreate" /\ log[i].res = Ok

\* C10: when the hook returns an error, exactly one RemoveContainer follows,
\* for the ID of the container just created and started; Apply returns the
\* hook's error whatever that removal answered, and makes no further call.
C10_RollbackOnHookFailure ==
    \A k \in 1..Len(returned) :
        LET L == CallLog(k) IN
        \A i \in 1..Len(L) :
            (L[i].op = "afterCreate" /\ L[i].res = "HookError") =>
                /\ Len(L) = i + 1
                /\ L[i + 1].op = "RemoveContainer"
                /\ L[i + 1].id = L[i].id
                /\ L[i - 1].op = "StartContainer" /\ L[i - 1].id = L[i].id
                /\ Cardinality({j \in 1..Len(L) :
                        L[j].op = "RemoveContainer" /\ L[j].id = L[i].id}) = 1
                /\ returned[k] = "HookError"

C10_Witness ==
    /\ Finished
    /\ returned[callNo] = "HookError"
    /\ LET L == CallLog(callNo) IN
          /\ L[Len(L)].op = "RemoveContainer"
          /\ L[Len(L)].res = EngineError
          /\ L[Len(L) - 1].op = "afterCreate"

\* the entries of call k with the given op
CallsOf(k, op) == SelectSeq(CallLog(k), LAMBDA e : e.op = op)
\* the engine calls of call k: its entries other than the hook's
EngineCalls(k) == SelectSeq(CallLog(k), LAMBDA e : e.op # "afterCreate")

\* C17: with forceRemoveExisting false and an existing container that matches
\* on all five axes and does not run, Apply (the calls before the start
\* succeeding) makes exactly one StartContainer call, with the ID of the
\* existing container and the desired host configuration, and no
\* RemoveContainer, no CreateContainer and no second InspectContainer.
C17_StartsStoppedMatchInPlace ==
    (/\ Finished
     /\ ~c.forceRemoveExisting
     /\ Existed
     /\ ~Found.Running
     /\ DifferingAxes(c, Found, pre.images) = {}
     /\ \A i \in CallIdx(callNo) :
           log[i].op # "StartContainer" => log[i].res # EngineError)
    => LET m == Mutations(callNo) IN
       /\ Len(m) = 1
       /\ m[1].op = "StartContainer"
       /\ m[1].id = Found.Id
       /\ m[1].hostConfig = c.hostConfig
       /\ Len(CallsOf(callNo, "InspectContainer")) = 1
       /\ returned[callNo] = m[1].res
       /\ m[1].res = Ok => (containers[c.name].Id = Found.Id /\ containers[c.name].Running)

C17_Witness ==
    /\ Finished
    /\ callNo = 1
    /\ ~c.forceRemoveExisting
    /\ c.hostConfig # NilHostConfig
    /\ Existed
    /\ ~Found.Running
    /\ DifferingAxes(c, Found, pre.images) = {}
    /\ returned[callNo] = Ok
    /\ Len(CallsOf(callNo, "StartContainer")) = 1
    /\ containers[c.name].Running

\* C18: when the first InspectContainer answers not-found and every later
\* call succeeds, the engine calls of Apply are exactly InspectContainer,
\* CreateContainer, InspectContainer, StartContainer, in this order, the start
\* being of the ID the second inspect returned and with the desired host
\* configuration; nothing is removed or listed, and Apply returns success.
C18_CreatePathForAbsentContainer ==
    LET L == CallLog(callNo) IN
    (/\ Finished
     /\ L[1].res = ErrNotFound
     /\ \A i \in 2..Len(L) : L[i].res = Ok)
    => LET E == EngineCalls(callNo) IN
       /\ [i \in 1..Len(E) |-> E[i].op] =
             <<"InspectContainer", "CreateContainer", "InspectContainer", "StartContainer">>
       /\ E[3].id = E[2].id
       /\ E[4].id = E[3].id
       /\ E[4].hostConfig = c.hostConfig
       /\ returned[callNo] = Ok
       /\ containers[c.name].Id = E[4].id
       /\ containers[c.name].Running
       /\ containers[c.name].Image = TagID(pre.images, c.image)
       /\ containers[c.name].Cmd = ImageEntrypoint \o c.cmd

C18_Witness ==
    /\ Finished
    /\ callNo = 1
    /\ ~Existed
    /\ c.hostConfig # NilHostConfig
    /\ returned[callNo] = Ok
    /\ Len(EngineCalls(callNo)) = 4
    /\ Len(CallsOf(callNo, "afterCreate")) = 1

(***************************************************************************)
(* Properties of NewContainer (checked under SpecNew)                      *)
(***************************************************************************)
FailingOptions == {i \in 1..Len(options) : options[i].err # NoErr}
FirstFailing == CHOOSE i \in FailingOptions : \A j \in FailingOptions : i <= j
NamingOptions == {i \in 1..Len(options) : options[i].field = "name" /\ options[i].name # ""}

\* C12: the options are invoked in the order given; when some option returns
\* an error, NewContainer returns the error of the first such option and a nil
\* container, having invoked no option after it, also when no name is set.
C12_NewContainerFailsFast ==
    /\ invoked = SubSeq(options, 1, Len(invoked))
    /\ (npc = "returned" /\ FailingOptions # {}) =>
          /\ nres = [c |-> NilSpec, err |-> options[FirstFailing].err]
          /\ invoked = SubSeq(options, 1, FirstFailing)

C12_Witness ==
    /\ npc = "returned"
    /\ Len(options) = 3
    /\ FirstFailing = 2
    /\ NamingOptions = {}
    /\ options[3] = ContainerRemoveExisting
    /\ nres.err = givenErr

\* C13 as stated: every container NewContainer returns has a non-empty name,
\* and when no option sets a non-empty name NewContainer returns the
\* missing-name error and a nil container.
C13_NameRequired ==
    npc = "returned" =>
        /\ nres.c # NilSpec => nres.c.name # ""
        /\ NamingOptions = {} => nres = [c |-> NilSpec, err |-> errNameMissing]

\* C13 amended: the same, the second part for option lists none of whose
\* options returns an error.
C13_NameRequiredUnlessOptionFails ==
    npc = "returned" =>
        /\ nres.c # NilSpec => nres.c.name # "" /\ nres.err = NoErr
        /\ (NamingOptions = {} /\ FailingOptions = {}) =>
              nres = [c |-> NilSpec, err |-> errNameMissing]

C13_Witness ==
    /\ npc = "returned"
    /\ NamingOptions = {}
    /\ FailingOptions = {}
    /\ Len(options) = 3
    /\ nc.removeExisting /\ nc.hostConfig # NilHostConfig
    /\ nres = [c |-> NilSpec, err |-> errNameMissing]

(***************************************************************************)
(* Properties of the string-slice helpers (checked under SpecSlices)       *)
(***************************************************************************)
\* C21: hasSuffixStrSlice(S, X) is true exactly when X is no longer than S
\* and the last Len(X) elements of S are those of X, in order; so it is true
\* for an empty X and false for an X longer than S.
C21_SuffixCheck ==
    fpc = "hasSuffixStrSlice" =>
        LET S == farg.a
            X == farg.b
        IN  /\ fout <=> (/\ Len(X) <= Len(S)
                         /\ \A i \in 1..Len(X) : S[Len(S) - Len(X) + i] = X[i])
            /\ X = <<>> => fout
            /\ Len(X) > Len(S) => ~fout

C21_Witness ==
    /\ fpc = "hasSuffixStrSlice"
    /\ farg.a = <<"x", "x", "y">>
    /\ farg.b = <<"x", "y">>
    /\ fout

\* C22: strSliceSubset(Big, Sub) is true exactly when every element of Sub
\* occurs in Big, whatever the order and the number of occurrences; so it is
\* true for an empty Sub.
C22_SubsetCheck ==
    fpc = "strSliceSubset" =>
        LET Big == farg.a
            Sub == farg.b
        IN  /\ fout <=> ({Sub[i] : i \in 1..Len(Sub)} \subseteq {Big[i] : i \in 1..Len(Big)})
            /\ Sub = <<>> => fout

C22_Witness ==
    /\ fpc = "strSliceSubset"
    /\ farg.a = <<"x", "y">>
    /\ farg.b = <<"y", "x", "y">>
    /\ fout

(***************************************************************************)
(* Properties of CreateWithPull and ImageID (checked under SpecPull)       *)
(***************************************************************************)
Call(op, res) == <<op, res>>

\* the CreateContainer and PullImage calls of call k from its first
\* CreateContainer on, each with what the engine answered
CreateWithPullCalls(k) ==
    LET L == CallLog(k)
        creates == {i \in 1..Len(L) : L[i].op = "CreateContainer"}
    IN  IF creates = {} THEN <<>>
        ELSE LET first == CHOOSE i \in creates : \A j \in creates : i <= j
                 rest == SelectSeq(SubSeq(L, first, Len(L)),
                                   LAMBDA e : e.op \in {"CreateContainer", "PullImage"})
             IN  [i \in 1..Len(rest) |-> Call(rest[i].op, rest[i].res)]

CreateWithPullSucceeded ==
    {<<Call("CreateContainer", Ok)>>,
     <<Call("CreateContainer", ErrNotFound), Call("PullImage", Ok),
       Call("CreateContainer", Ok)>>}

CreateWithPullFailed ==
    {<<Call("CreateContainer", EngineError)>>,
     <<Call("CreateContainer", ErrNotFound), Call("PullImage", EngineError)>>}
    \cup {<<Call("CreateContainer", ErrNotFound), Call("PullImage", Ok),
            Call("CreateContainer", r)>> : r \in {EngineError, ErrNotFound}}

CreateWithPullUnderWay ==
    {<<>>,
     <<Call("CreateContainer", ErrNotFound)>>,
     <<Call("CreateContainer", ErrNotFound), Call("PullImage", Ok)>>}

\* C11: the CreateContainer and PullImage calls of CreateWithPull are one of:
\* create ok; create failing other than not-found; create not-found, pull
\* failing; create not-found, pull ok, create ok or failing. A pull follows
\* only a first create that answered not-found, there are at most two creates
\* and one pull, and a failure (a not-found of the second create included) is
\* what the call returns, no further call being made.
C11_CreateWithPullProtocol ==
    \A k \in 1..callNo :
        LET T == CreateWithPullCalls(k)
            L == CallLog(k)
        IN  /\ T \in CreateWithPullSucceeded \cup CreateWithPullFailed
                      \cup CreateWithPullUnderWay
            /\ T \in CreateWithPullUnderWay => (T = <<>> \/ (k = callNo /\ pc # "done"))
            /\ T \in CreateWithPullFailed =>
                  /\ k <= Len(returned)
                  /\ returned[k] = T[Len(T)][2]
                  /\ L[Len(L)].op = T[Len(T)][1]
                  /\ L[Len(L)].res = T[Len(T)][2]

C11_Witness ==
    /\ Finished
    /\ CreateWithPullCalls(callNo) =
          <<Call("CreateContainer", ErrNotFound), Call("PullImage", Ok),
            Call("CreateContainer", ErrNotFound)>>
    /\ returned[callNo] = ErrNotFound

\* the ListImages and PullImage calls of call k before its first
\* CreateContainer, each with what the engine answered
ImageIDCalls(k) ==
    LET L == CallLog(k)
        creates == {i \in 1..Len(L) : L[i].op = "CreateContainer"}
        last == IF creates = {} THEN Len(L)
                ELSE (CHOOSE i \in creates : \A j \in creates : i <= j) - 1
        own == SelectSeq(SubSeq(L, 1, last),
                         LAMBDA e : e.op \in {"ListImages", "PullImage"})
    IN  [i \in 1..Len(own) |-> Call(own[i].op, own[i].res)]

ImageIDShapes ==
    {<<>>,
     <<Call("ListImages", EngineError)>>,
     <<Call("ListImages", Ok)>>,
     <<Call("ListImages", Ok), Call("PullImage", EngineError)>>,
     <<Call("ListImages", Ok), Call("PullImage", Ok)>>,
     <<Call("ListImages", Ok), Call("PullImage", Ok), Call("ListImages", EngineError)>>,
     <<Call("ListImages", Ok), Call("PullImage", Ok), Call("ListImages", Ok)>>}

\* the call's last log entry is the last call of T and the call returned r
EndedWith(T, r) ==
    LET L == CallLog(callNo) IN
    /\ pc = "done"
    /\ returned[callNo] = r
    /\ Call(L[Len(L)].op, L[Len(L)].res) = T[Len(T)]

\* C19: ImageID lists the images; when the list holds the tag it pulls
\* nothing and returns the ID of the first image carrying the tag; otherwise
\* it pulls once and lists once more, returning that ID when the tag is there
\* now and the image-not-identified error when it is not. There are at most
\* two ListImages and one PullImage; a failing list or pull ends the call.
C19_ImageResolverProtocol ==
    callNo >= 1 =>
        LET T == ImageIDCalls(callNo)
            local == imageIDFromList(pre.images, c.image) # ""
            now == imageIDFromList(images, c.image)
        IN  /\ T \in ImageIDShapes
            /\ (Len(T) >= 1 /\ T[1][2] = EngineError) => EndedWith(T, EngineError)
            /\ (Len(T) >= 1 /\ T[1][2] = Ok /\ local) => Len(T) = 1
            /\ (Len(T) = 1 /\ T[1][2] = Ok /\ ~local) => pc = "imageIDPull"
            /\ (Len(T) >= 2 /\ T[2][2] = EngineError) => EndedWith(T, EngineError)
            /\ (Len(T) = 2 /\ T[2][2] = Ok) => pc = "imageIDRelist"
            /\ (Len(T) = 3 /\ T[3][2] = EngineError) => EndedWith(T, EngineError)
            /\ (Len(T) = 3 /\ T[3][2] = Ok /\ now = "") => EndedWith(T, "ImageNotIdentified")
            /\ (Len(T) \in {1, 3} /\ T[Len(T)][2] = Ok /\ now # "" /\ pc = "done"
                 /\ ~c.removeExisting) =>
                  /\ returned[callNo] # "ImageNotIdentified"
                  /\ (returned[callNo] = "mismatch:image") <=>
                        (Found.Image # TagID(images, c.image))

C19_Witness ==
    /\ Finished
    /\ ImageIDCalls(callNo) =
          <<Call("ListImages", Ok), Call("PullImage", Ok), Call("ListImages", Ok)>>
    /\ returned[callNo] = "ImageNotIdentified"
    /\ Len(images) = Len(pre.images) + 1

(***************************************************************************)
(* Properties of checkExisting (checked under SpecApply)                   *)
(***************************************************************************)
AxisOrder == <<"image", "DNS", "command", "env", "volumes">>
\* the first axis, in the order of the checks, among the axes S
FirstAxis(S) ==
    AxisOrder[CHOOSE i \in 1..Len(AxisOrder) :
                 /\ AxisOrder[i] \in S
                 /\ \A j \in 1..(i - 1) : AxisOrder[j] \notin S]

\* ImageID is about to return an ID to checkExisting
CheckPoint ==
    /\ pc \in {"imageID", "imageIDRelist"}
    /\ imageIDFromList(images, c.image) # ""

C29_CheckExistingReadOnly ==
    pc \in {"imageID", "imageIDPull", "imageIDRelist"} =>
        /\ containers = pre.containers
        /\ images = pre.images
        /\ \A i \in 1..Len(CallLog(callNo)) :
              CallLog(callNo)[i].op \in {"InspectContainer", "ListImages"}

(***************************************************************************)
(* Properties of checkExisting, step by step (checked under SpecCheck)      *)
(***************************************************************************)
\* the result of the check of one axis on the arguments of the call
AxisResult(axis) ==
    CASE axis = "image" -> checkExistingImage(farg.spec, farg.current, farg.id)
      [] axis = "DNS" -> checkExistingDNS(farg.spec, farg.current)
      [] axis = "command" -> checkExistingCmd(farg.spec, farg.current)
      [] axis = "env" -> checkExistingEnv(farg.spec, farg.current)
      [] axis = "volumes" -> checkExistingBinds(farg.spec, farg.current)

\* the axes whose check does not pass on the arguments of the call
MismatchingAxes ==
    {AxisOrder[i] : i \in {j \in 1..Len(AxisOrder) : Failed(AxisResult(AxisOrder[j]))}}

\* C27: the checks run in the order image, DNS, command, env, volumes; a
\* check runs only after every earlier one has passed; checkExisting
\* returns at the first check that does not pass, with the error of that
\* axis when removeExisting is false, and no later check runs, not even
\* after the return.
C27_FixedOrderFirstMismatch ==
    /\ [](/\ Len(evaluated) <= Len(AxisOrder)
          /\ \A i \in 1..Len(evaluated) : evaluated[i] = AxisOrder[i]
          /\ \A i \in 1..(Len(evaluated) - 1) : ~Failed(AxisResult(evaluated[i]))
          /\ fpc = "returned" =>
                /\ fout = checkExisting(farg.spec, farg.current, farg.id)
                /\ IF MismatchingAxes = {}
                   THEN evaluated = AxisOrder /\ fout = Check(TRUE, NoErr)
                   ELSE /\ evaluated[Len(evaluated)] = FirstAxis(MismatchingAxes)
                        /\ ~fout.ok
                        /\ fout.err = IF farg.spec.removeExisting
                                      THEN NoErr
                                      ELSE "mismatch:" \o FirstAxis(MismatchingAxes))
    /\ [][fpc = "returned" => evaluated' = evaluated]_vars

C27_Witness ==
    /\ fpc = "returned"
    /\ ~farg.spec.removeExisting
    /\ MismatchingAxes = {"DNS", "env", "volumes"}
    /\ evaluated = <<"image", "DNS">>
    /\ fout = Check(FALSE, "mismatch:DNS")

\* the strings "<source>:<destination>" of the observed mapping
\* destination -> source
SourceColonDestination(volumes) == {<<p[2], Colon, p[1]>> : p \in volumes}

\* the observed DNS list, none counting as empty
ObservedDNS(current) ==
    IF current.HostConfig = NilHostConfig THEN <<>> ELSE current.HostConfig.Dns

\* the desired DNS list, none counting as empty
DesiredDNS(spec) ==
    IF spec.hostConfig = NilHostConfig THEN <<>> ELSE spec.hostConfig.Dns

\* the five conditions under which the observed container is the desired one
ImageHolds == farg.current.Image = farg.id

DNSHolds ==
    LET want == DesiredDNS(farg.spec)
        have == ObservedDNS(farg.current)
    IN  /\ Len(want) = Len(have)
        /\ \A i \in 1..Len(want) : want[i] = have[i]

CmdHolds ==
    LET want == farg.spec.cmd
        have == farg.current.Cmd
    IN  /\ Len(want) <= Len(have)
        /\ \A i \in 1..Len(want) : want[i] = have[Len(have) - Len(want) + i]

EnvHolds ==
    \A i \in 1..Len(farg.spec.env) :
        \E j \in 1..Len(farg.current.Env) : farg.spec.env[i] = farg.current.Env[j]

BindsHold ==
    \/ farg.spec.hostConfig = NilHostConfig
    \/ \A i \in 1..Len(farg.spec.hostConfig.Binds) :
           farg.spec.hostConfig.Binds[i] \in SourceColonDestination(farg.current.Volumes)

\* C28: checkExisting returns ok = true exactly when the observed image is
\* the resolved one, the DNS lists are equal element by element, the
\* observed command ends with the desired one, every desired environment
\* entry is observed, and every desired bind is the "<source>:<destination>"
\* of an observed volume (nothing asked of the binds without a host
\* configuration).
C28_OkExactlyWhenAllFiveHold ==
    fpc = "returned" =>
        (fout.ok <=> (ImageHolds /\ DNSHolds /\ CmdHolds /\ EnvHolds /\ BindsHold))

\* the four conditions that do not involve the volumes are exact
OkOnlyWhenFirstFourHold ==
    fpc = "returned" =>
        /\ fout.ok => (ImageHolds /\ DNSHolds /\ CmdHolds /\ EnvHolds)
        /\ (ImageHolds /\ DNSHolds /\ CmdHolds /\ EnvHolds /\ BindsHold) => fout.ok

\* C30: the slice that flattenVolumes returns holds exactly the strings
\* "<source>:<destination>", one for each entry of the observed mapping, and
\* the check of the binds passes exactly when every desired bind is one of
\* these strings.
C30_FlattenedExactlySourceColonDestination ==
    (fpc = "returned" /\ evaluated = AxisOrder) =>
        LET flat == flattenVolumes(farg.current.Volumes)
        IN  /\ Len(flat) = Cardinality(farg.current.Volumes)
            /\ {flat[i] : i \in 1..Len(flat)}
                  = SourceColonDestination(farg.current.Volumes)
            /\ farg.spec.hostConfig # NilHostConfig =>
                  (fout.ok <=>
                      \A i \in 1..Len(farg.spec.hostConfig.Binds) :
                          farg.spec.hostConfig.Binds[i]
                              \in SourceColonDestination(farg.current.Volumes))

(***************************************************************************)
(* Properties of ApplyGraph (checked under Spec)                           *)
(***************************************************************************)
LinksOf(spec) == IF spec.hostConfig = NilHostConfig THEN <<>> ELSE spec.hostConfig.Links
BatchNames == {batch[i].name : i \in 1..Len(batch)}

\* every engine call of B's Apply precedes log entry i, and that Apply returned success
AppliedBefore(B, i) ==
    /\ \A j \in 1..Len(log) : log[j].by = B => j < i
    /\ \E k \in 1..Len(returned) :
          /\ returned[k] = Ok
          /\ k < log[i].call
          /\ \E j \in 1..(i - 1) : log[j].call = k /\ log[j].by = B

\* C1: for every spec A of the batch and every link of A to a spec B of the
\* batch, all engine calls of Apply(B) are made, and Apply(B) has returned
\* success, before the first engine call of Apply(A), whatever their order in
\* the input.
C1_DependencyOrder ==
    \A a \in 1..Len(batch) :
        \A l \in 1..Len(LinksOf(batch[a])) :
            LET B == SplitHead(LinksOf(batch[a])[l]) IN
            B \in BatchNames =>
                \A i \in 1..Len(log) :
                    log[i].by = batch[a].name => AppliedBefore(B, i)

C1_Witness ==
    /\ gpc = "done"
    /\ gres.err = Ok
    /\ Len(batch) = 3
    /\ LinksOf(batch[1]) = <<Link(batch[2].name)>>
    /\ LinksOf(batch[2]) = <<Link(batch[3].name)>>
    /\ \E i, j, k \in 1..Len(log) :
          /\ i < j /\ j < k
          /\ log[i].by = batch[3].name /\ log[i].op = "StartContainer"
          /\ log[j].by = batch[2].name /\ log[j].op = "StartContainer"
          /\ log[k].by = batch[1].name /\ log[k].op = "StartContainer"

\* the pairs (spec name, link) of the batch whose link target is no spec of the batch
BadLinks ==
    UNION {{<<batch[a].name, LinksOf(batch[a])[l]>> :
                l \in {x \in 1..Len(LinksOf(batch[a])) :
                          SplitHead(LinksOf(batch[a])[x]) \notin BatchNames}} :
           a \in 1..Len(batch)}

\* C2: when some spec of the batch has a link to a name that is no spec of the
\* batch, ApplyGraph makes no engine call at all, and what it returns is the
\* unknown-link error of such a spec and link.
C2_EagerLinkValidation ==
    BadLinks # {} =>
        /\ log = <<>>
        /\ gpc = "done" =>
              /\ gres.err = "UnknownLink"
              /\ <<gres.name, gres.link>> \in BadLinks

\* the names of the containers this round has deferred or not yet reached
NotApplied ==
    {nextRound[i].name : i \in 1..Len(nextRound)}
    \cup {pending[i].name : i \in (gi + 1)..Len(pending)}

\* C14: when the Apply of a container returns an error, it is the last Apply
\* ApplyGraph calls and its error is what ApplyGraph returns; no round follows,
\* and the containers deferred to a later round (and those the round had not
\* reached) have received no engine call.
C14_StopsAtFirstFailure ==
    \A k \in 1..Len(returned) :
        returned[k] # Ok =>
            /\ k = callNo
            /\ gpc \in {"applying", "done"}
            /\ gpc = "done" => gres = GResult(returned[k], c.name, <<>>)
            /\ \A i \in 1..Len(log) : log[i].call <= k /\ log[i].by \notin NotApplied

C14_Witness ==
    /\ gpc = "done"
    /\ Len(returned) = 2
    /\ returned[1] = Ok
    /\ gres.err = EngineError
    /\ nextRound # <<>>
    /\ started # {}
    /\ log[Len(log)].op = "StartContainer"

\* the names the links of batch[i] name
Deps(i) == {SplitHead(LinksOf(batch[i])[l]) : l \in 1..Len(LinksOf(batch[i]))}

RECURSIVE Reaches(_, _)
\* the names reached from the names S by following links at most n times
Reaches(S, n) ==
    IF n = 0 THEN S
    ELSE Reaches(S \cup UNION {Deps(i) : i \in {j \in 1..Len(batch) : batch[j].name \in S}},
                 n - 1)

AcyclicBatch ==
    /\ BadLinks = {}
    /\ \A i \in 1..Len(batch) : batch[i].name \notin Reaches(Deps(i), Len(batch))

AllAppliesSucceeded == \A k \in 1..Len(returned) : returned[k] = Ok

\* Apply has been invoked exactly once on every container of the batch
AppliedOnceEach ==
    /\ callNo = Len(batch)
    /\ \A i \in 1..Len(batch) :
          Cardinality({log[j].call : j \in {x \in 1..Len(log) : log[x].by = batch[i].name}}) = 1

\* C15: for a batch whose links all name containers of the batch and form no
\* cycle, ApplyGraph returns; when every Apply has succeeded it returns
\* success, Apply having been invoked exactly once on every container; and
\* every round leaves fewer containers pending than it found.
C15_TerminatesOnAcyclicInput ==
    /\ AcyclicBatch =>
          <>(/\ gpc = "done"
             /\ AllAppliesSucceeded => (gres.err = Ok /\ AppliedOnceEach))
    /\ [][(AcyclicBatch /\ gpc = "pendingLoop" /\ gpc' = "round") =>
              Len(pending') < Len(pending)]_vars

C15_Witness ==
    /\ gpc = "done"
    /\ gres.err = Ok
    /\ AcyclicBatch
    /\ Len(batch) = 3
    /\ TotalLinks([i \in 1..Len(batch) |-> LinksOf(batch[i])]) = 2
    /\ AppliedOnceEach

\* the containers of the current round all of whose links are started
ReadyNames ==
    {pending[i].name : i \in {j \in 1..Len(pending) :
                                LinkDecision(pending[j], known, started).kind = "ready"}}

\* C16: in a round, the Apply of every ready container has been started
\* before the Apply of any of them has returned, whether it returned an error
\* or not.
C16_ReadySpecsStartedTogether ==
    (gpc \in {"pendingLoop", "applying", "done"} /\ callNo >= 1 /\ pc = "done"
     /\ c.name \in ReadyNames) =>
        ReadyNames \subseteq {starting[i] : i \in 1..Len(starting)}

\* the containers that link to themselves, directly or through others
CycleMembers ==
    {batch[i].name : i \in {j \in 1..Len(batch) :
                                batch[j].name \in Reaches(Deps(j), Len(batch))}}

\* the cycle members and the containers that depend on one
Stuck ==
    LET members == CycleMembers IN
    {batch[i].name : i \in {j \in 1..Len(batch) :
        (Reaches(Deps(j), Len(batch)) \cup {batch[j].name}) \cap members # {}}}

PendingNames == {pending[i].name : i \in 1..Len(pending)}

\* no Apply is invoked on a cycle member or on a dependent of one, and a round
\* that finds only such containers pending leaves pending as it is
StuckStaysPending ==
    /\ [](log # <<>> => LET stuck == Stuck IN \A i \in 1..Len(log) : log[i].by \notin stuck)
    /\ [][(gpc = "pendingLoop" /\ gpc' = "round" /\ PendingNames \subseteq Stuck) =>
              pending' = pending]_vars

\* C23 as stated: when the batch has a link cycle ApplyGraph never returns,
\* no Apply is invoked on a cycle member or dependent, and pending stays the
\* same once only these remain.
C23_CyclesNeverReturn ==
    /\ [](gpc = "done" => CycleMembers = {})
    /\ StuckStaysPending

\* C23 amended: the same, ApplyGraph never returning provided every link
\* names a container of the batch and every Apply it invokes succeeds (it has
\* returned only if an Apply failed, a link is unknown or there is no cycle).
C23_CyclesNeverReturnUnlessError ==
    /\ [](gpc = "done" => (~AllAppliesSucceeded \/ BadLinks # {} \/ CycleMembers = {}))
    /\ StuckStaysPending

C23_Witness ==
    /\ CycleMembers # {}
    /\ BadLinks = {}
    /\ Stuck # CycleMembers
    /\ gpc = "round"
    /\ PendingNames = Stuck
    /\ nextRound = pending
    /\ starting = <<>>
    /\ callNo = 1
    /\ returned = <<Ok>>

\* every link target of the container is started
AllLinksStarted(spec) ==
    \A l \in 1..Len(LinksOf(spec)) : SplitHead(LinksOf(spec)[l]) \in started

\* the containers among the first n pending ones whose links are all started, and the others
ReadyAmong(n) == SelectSeq(SubSeq(pending, 1, n), AllLinksStarted)
DeferredAmong(n) == SelectSeq(SubSeq(pending, 1, n), LAMBDA spec : ~AllLinksStarted(spec))

C25_RoundBarrier ==
    /\ [](\A i \in 1..Len(log) :
            /\ log[i].call < callNo => log[i].call <= Len(returned)
            /\ \A j \in 1..(i - 1) : log[j].call <= log[i].call)
    /\ [][log' # log => /\ log'[Len(log')].call = callNo
                         /\ Len(returned) = callNo - 1]_vars

C25_Witness ==
    /\ gpc = "done"
    /\ gres.err = Ok
    /\ Len(batch) = 3
    /\ LinksOf(batch[1]) = <<Link(batch[3].name)>>
    /\ LinksOf(batch[2]) = <<>>
    /\ LinksOf(batch[3]) = <<>>
    /\ log[Len(log)].by = batch[1].name
    /\ log[1].by = batch[2].name
    /\ returned = <<Ok, Ok, Ok>>

\* C26: when ApplyGraph has returned, with success or with an error, every
\* Apply it started has returned, and no engine call is made afterwards.
C26_NoEngineActivityAfterReturn ==
    /\ [](gpc = "done" => (pc \in {"idle", "done"} /\ Len(returned) = callNo))
    /\ [][gpc = "done" => log' = log]_vars

C26_Witness ==
    /\ gpc = "done"
    /\ gres.err = "UnknownLink"
    /\ returned = <<Ok>>
    /\ pc = "done"
    /\ log # <<>>
    /\ nextRound = <<>>

(***************************************************************************)
(* Failures of the engine during Apply (checked under SpecApply)           *)
(***************************************************************************)
FirstOfCall(i) == \A j \in CallIdx(log[i].call) : i <= j

FirstCreateOfCall(i) ==
    /\ log[i].op = "CreateContainer"
    /\ \A j \in CallIdx(log[i].call) : j < i => log[j].op # "CreateContainer"

\* entry i is the last of its call, and the call returned what it answered
ReturnsAt(i) ==
    LET k == log[i].call
    IN  /\ \A j \in CallIdx(k) : j <= i
        /\ Len(returned) >= k
        /\ returned[k] = log[i].res

\* a failed initial inspect other than not-found, or a failed start
InspectOrStartFailed(i) ==
    \/ /\ log[i].op = "InspectContainer"
       /\ FirstOfCall(i)
       /\ log[i].res \notin {Ok, ErrNotFound}
    \/ /\ log[i].op = "StartContainer"
       /\ log[i].res # Ok

CreateFailed(i) == log[i].op = "CreateContainer" /\ log[i].res # Ok

\* C31 as stated: a failed initial inspect (other than not-found), any failed
\* CreateContainer and a failed StartContainer are each the last engine call
\* of their Apply, which returns that error; no hook and no removal follows.
C31_ReturnsAtFirstEngineFailure ==
    \A i \in 1..Len(log) :
        (InspectOrStartFailed(i) \/ CreateFailed(i)) => ReturnsAt(i)

\* C31 amended: the same, but for the first CreateContainer of CreateWithPull
\* when it answers not-found, after which the image is pulled and the create
\* is made once more.
C31_ReturnsAtFirstEngineFailureButPullRetry ==
    \A i \in 1..Len(log) :
        /\ (\/ InspectOrStartFailed(i)
            \/ CreateFailed(i) /\ ~(FirstCreateOfCall(i) /\ log[i].res = ErrNotFound))
              => ReturnsAt(i)
        /\ (CreateFailed(i) /\ FirstCreateOfCall(i) /\ log[i].res = ErrNotFound) =>
              /\ (i + 1) \in CallIdx(log[i].call) =>
                    /\ log[i + 1].op = "PullImage"
                    /\ log[i + 1].res # Ok => ReturnsAt(i + 1)
              /\ (i + 2) \in CallIdx(log[i].call) =>
                    log[i + 2].op = "CreateContainer"

\* a start that fails after a successful create, the hook being set
C31_Witness ==
    /\ pc = "done"
    /\ c.afterCreate
    /\ createIt
    /\ log # <<>>
    /\ log[Len(log)].op = "StartContainer"
    /\ log[Len(log)].res = EngineError
    /\ log[Len(log)].call = callNo
    /\ returned[callNo] = EngineError
    /\ \E j \in CallIdx(callNo) : log[j].op = "CreateContainer" /\ log[j].res = Ok

\* C32: an InspectContainer that answers not-found after a successful create
\* is the last engine call of its Apply, which returns not-found: no
\* StartContainer and no further CreateContainer follows.
C32_NotFoundOnReinspectIsAnError ==
    \A i \in 1..Len(log) :
        (/\ log[i].op = "InspectContainer"
         /\ log[i].res = ErrNotFound
         /\ \E j \in CallIdx(log[i].call) :
               j < i /\ log[j].op = "CreateContainer" /\ log[j].res = Ok)
        => /\ ReturnsAt(i)
           /\ \A j \in CallIdx(log[i].call) : log[j].op # "StartContainer"
           /\ Cardinality({j \in CallIdx(log[i].call) :
                              log[j].op = "CreateContainer" /\ log[j].res = Ok}) = 1

C32_Witness ==
    /\ pc = "done"
    /\ log # <<>>
    /\ log[Len(log)].op = "InspectContainer"
    /\ log[Len(log)].res = ErrNotFound
    /\ log[Len(log)].call = callNo
    /\ Len(log) >= 2
    /\ log[Len(log) - 1].op = "CreateContainer"
    /\ log[Len(log) - 1].res = Ok
    /\ log[Len(log) - 1].call = callNo
    /\ returned[callNo] = ErrNotFound

\* the removal of the existing container, not the one that follows a failed hook
RemovalOfExisting(i) ==
    /\ log[i].op = "RemoveContainer"
    /\ \A j \in CallIdx(log[i].call) : j < i => log[j].op # "afterCreate"

ForcedButAbsent ==
    /\ callNo >= 1
    /\ c.forceRemoveExisting
    /\ CallLog(callNo) # <<>>
    /\ CallLog(callNo)[1].res = ErrNotFound

\* the create, the second inspect and the start of the current call succeeded
CreateReinspectStartSucceeded ==
    LET L == CallLog(callNo)
    IN  \E i, j, k \in 1..Len(L) :
           /\ i < j /\ j < k
           /\ L[i].op = "CreateContainer" /\ L[i].res = Ok
           /\ L[j].op = "InspectContainer" /\ L[j].res = Ok
           /\ L[k].op = "StartContainer" /\ L[k].res = Ok

\* the create path is taken with no removal before it
CreatePathWithoutRemoval ==
    LET L == CallLog(callNo)
    IN  /\ pc = "done" => Len(L) >= 2
        /\ Len(L) >= 2 => L[2].op = "CreateContainer"
        /\ \A i \in 1..Len(L) :
              L[i].op = "RemoveContainer" =>
                 \E j \in 1..(i - 1) : L[j].op = "afterCreate"

\* C34 as stated: with forceRemoveExisting set and no container of the name,
\* Apply removes nothing before it creates, and returns success when the
\* create, the second inspect and the start succeed.
C34_ForceWithNoContainer ==
    ForcedButAbsent =>
        /\ CreatePathWithoutRemoval
        /\ (pc = "done" /\ CreateReinspectStartSucceeded) =>
              (returned[callNo] = Ok /\ containers[c.name].Running)

\* C34 amended: the same, success being returned when moreover the
\* afterCreate hook, if there is one, returns no error.
C34_ForceWithNoContainerUnlessHookFails ==
    ForcedButAbsent =>
        /\ CreatePathWithoutRemoval
        /\ (pc = "done" /\ CreateReinspectStartSucceeded /\ NoHookFailure(callNo)) =>
              (returned[callNo] = Ok /\ containers[c.name].Running)
        /\ (pc = "done" /\ ~NoHookFailure(callNo)) => returned[callNo] = "HookError"

C34_Witness ==
    /\ ForcedButAbsent
    /\ pc = "done"
    /\ CreateReinspectStartSucceeded
    /\ returned[callNo] = Ok
    /\ containers[c.name] # NoContainer
    /\ containers[c.name].Running
    /\ \A i \in CallIdx(callNo) : log[i].op # "RemoveContainer"

\* C35: every RemoveContainer of Apply, forced, after a mismatch or after a
\* failed hook, is made with force = true and removeVolumes = false, on an
\* ID that an InspectContainer of the same call returned for the name of the
\* spec.
C35_RemovalKeepsVolumes ==
    \A i \in 1..Len(log) :
        log[i].op = "RemoveContainer" =>
            /\ log[i].force
            /\ ~log[i].removeVolumes
            /\ \E j \in CallIdx(log[i].call) :
                  /\ j < i
                  /\ log[j].op = "InspectContainer"
                  /\ log[j].res = Ok
                  /\ log[j].by = log[i].by
                  /\ log[j].id = log[i].id

\* one call that removes twice: the existing container, then the new one
\* after its hook failed
C35_Witness ==
    /\ pc = "done"
    /\ Len(CallsOf(callNo, "RemoveContainer")) = 2
    /\ CallsOf(callNo, "RemoveContainer")[1].id = Found.Id
    /\ CallsOf(callNo, "RemoveContainer")[2].id # Found.Id
    /\ CallsOf(callNo, "RemoveContainer")[2].res = Ok
    /\ returned[callNo] = "HookError"

(***************************************************************************)
(* Engine traffic of one Apply (checked under SpecApply)                   *)
(***************************************************************************)
\* C38: whatever the engine answers, one Apply makes at most two
\* InspectContainer calls, two CreateContainer calls, one StartContainer
\* call, one afterCreate call and two RemoveContainer calls (the second of
\* them after the hook), and it calls CreateContainer only when the first
\* inspect found no container or the container it found has been removed.
C38_BoundedEngineTraffic ==
    \A k \in 1..callNo :
        LET L == CallLog(k) IN
        /\ Len(CallsOf(k, "InspectContainer")) <= 2
        /\ Len(CallsOf(k, "CreateContainer")) <= 2
        /\ Len(CallsOf(k, "StartContainer")) <= 1
        /\ Len(CallsOf(k, "afterCreate")) <= 1
        /\ Len(CallsOf(k, "RemoveContainer")) <= 2
        /\ Len(CallsOf(k, "RemoveContainer")) = 2 =>
              \E i, j \in 1..Len(L) :
                 /\ i < j
                 /\ L[i].op = "afterCreate"
                 /\ L[j].op = "RemoveContainer"
        /\ \A i \in 1..Len(L) :
              (L[i].op = "CreateContainer" /\ L[1].res = Ok) =>
                 \E j \in 2..(i - 1) :
                    /\ L[j].op = "RemoveContainer"
                    /\ L[j].res = Ok
                    /\ L[j].id = L[1].id

\* a call that reaches every bound
C38_Witness ==
    /\ pc = "done"
    /\ Len(CallsOf(callNo, "InspectContainer")) = 2
    /\ Len(CallsOf(callNo, "CreateContainer")) = 2
    /\ Len(CallsOf(callNo, "StartContainer")) = 1
    /\ Len(CallsOf(callNo, "afterCreate")) = 1
    /\ Len(CallsOf(callNo, "RemoveContainer")) = 2
    /\ CallLog(callNo)[1].res = Ok

(***************************************************************************)
(* Replacement by Apply (checked under SpecApply)                          *)
(***************************************************************************)
\* the current call has removed the container it found
ExistingRemoved ==
    /\ callNo >= 1
    /\ Existed
    /\ \E i \in CallIdx(callNo) :
          /\ RemovalOfExisting(i)
          /\ log[i].res = Ok
          /\ log[i].id = Found.Id

\* the container of the name is a new one that does not run
CreatedNotStarted ==
    /\ containers[c.name] # NoContainer
    /\ containers[c.name].Id # Found.Id
    /\ ~containers[c.name].Running

\* C39: when Apply has removed the existing container and CreateWithPull,
\* the second inspect or the start then fails, Apply returns that error and
\* restores nothing: the engine holds no container of the name after a
\* failed CreateWithPull, and a new container that does not run after a
\* failed second inspect or a failed start.
C39_ReplacementNotAtomic ==
    (pc = "done" /\ ExistingRemoved) =>
        LET L == CallLog(callNo)
            last == L[Len(L)]
        IN  /\ (last.op \in {"CreateContainer", "PullImage"} /\ last.res # Ok) =>
                  /\ returned[callNo] = last.res
                  /\ containers[c.name] = NoContainer
            /\ (last.op = "InspectContainer" /\ last.res # Ok) =>
                  /\ returned[callNo] = last.res
                  /\ CreatedNotStarted
            /\ (\E i \in 1..Len(L) : L[i].op = "StartContainer" /\ L[i].res # Ok) =>
                  /\ returned[callNo] = EngineError
                  /\ last.op = "StartContainer"
                  /\ CreatedNotStarted

\* a matching, running container has been force-removed and the start of
\* its replacement has failed
C39_Witness ==
    /\ pc = "done"
    /\ ExistingRemoved
    /\ Found.Running
    /\ DifferingAxes(c, Found, pre.images) = {}
    /\ log[Len(log)].op = "StartContainer"
    /\ log[Len(log)].res = EngineError
    /\ returned[callNo] = EngineError
    /\ CreatedNotStarted

(***************************************************************************)
(* Success of ApplyGraph (checked under Spec)                              *)
(***************************************************************************)
\* the calls of Apply on the container of batch index i that have returned
\* success
SucceededFor(i) ==
    {k \in 1..Len(returned) :
        /\ returned[k] = Ok
        /\ \E j \in CallIdx(k) : log[j].by = batch[i].name}

\* C37: ApplyGraph returns success only when nothing is pending, Apply has
\* been invoked on every container of the batch and every invocation has
\* returned success; after an Apply has returned an error it does not
\* return success.
C37_AllOrNothing ==
    /\ (gpc = "done" /\ gres.err = Ok) =>
          /\ pending = <<>>
          /\ NotApplied = {}
          /\ pc \in {"idle", "done"}
          /\ Len(returned) = callNo
          /\ AllAppliesSucceeded
          /\ \A i \in 1..Len(batch) : SucceededFor(i) # {}
          /\ started = {batch[i].name : i \in 1..Len(batch)}
    /\ ~AllAppliesSucceeded => ~(gpc = "done" /\ gres.err = Ok)

\* success on a batch of three, applied in more than one round
C37_Witness ==
    /\ gpc = "done"
    /\ gres.err = Ok
    /\ Len(batch) = 3
    /\ Len(returned) = 3
    /\ AllAppliesSucceeded
    /\ \E i \in 1..Len(batch) : LinksOf(batch[i]) # <<>>
    /\ \A i \in 1..Len(batch) : SucceededFor(i) # {}

(***************************************************************************)
(* SpecTwo: the Applys of two containers of different names on one engine, *)
(* first one after the other and then, on an engine in the same state,     *)
(* with their engine calls interleaved in every way                        *)
(***************************************************************************)
FirstContainers ==
    [name : {"a"}, image : {"foo"}, cmd : {<<"run">>}, env : {<<"A=1">>},
     hostConfig : {NilHostConfig},
     removeExisting : BOOLEAN, forceRemoveExisting : {FALSE},
     afterCreate : BOOLEAN]

SecondContainers ==
    [name : {"b"}, image : {"foo", "ghost"}, cmd : {<<"run">>}, env : {<<"A=1">>},
     hostConfig : {NilHostConfig},
     removeExisting : {TRUE}, forceRemoveExisting : BOOLEAN,
     afterCreate : {FALSE}]

\* what the engine holds under a name: nothing, or a stopped container of
\* the image I1 or I2
ExistingContainers(id) ==
    {NoContainer}
    \cup [Id : {id}, Running : {FALSE}, Image : {"I1", "I2"},
          HostConfig : {NilHostConfig},
          Cmd : {<<"sh", "run">>},
          Env : {<<"P=x", "A=1">>},
          Volumes : {{}}]

\* an Apply that has been called: its receiver, its position and its locals
Called(spec, k) ==
    [c |-> spec, pc |-> "inspect", ci |-> NoContainer, createIt |-> FALSE,
     callNo |-> k]

InitTwo ==
    /\ c \in FirstContainers
    /\ pc = "inspect"
    /\ ci = NoContainer
    /\ createIt = FALSE
    /\ callNo = 1
    /\ other \in {Called(spec, 2) : spec \in SecondContainers}
    /\ reference = [phase |-> "oneAfterTheOther", outcome |-> NoReference]
    /\ \E ea \in ExistingContainers(1), eb \in ExistingContainers(2) :
          containers = [n \in Names |-> IF n = "a" THEN ea
                                        ELSE IF n = "b" THEN eb
                                        ELSE NoContainer]
    /\ images \in Catalogs
    /\ nextId = 3
    /\ returned = <<>>
    /\ pre = [containers |-> containers, images |-> images]
    /\ log = <<>>
    /\ GraphIdle
    /\ NewIdle
    /\ FnIdle

\* the last call was answered by an engine that executes what it is asked
\* and reports what it did, and by hooks that are functions: the hook of
\* "a" returns an error, any other returns nil
Faithful ==
    log # <<>> =>
        LET e == log[Len(log)]
        IN  /\ e.res # EngineError
            /\ (e.op = "InspectContainer" /\ e.res = ErrNotFound) =>
                  containers[e.by] = NoContainer
            /\ e.op = "afterCreate" =>
                  e.res = IF e.by = "a" THEN "HookError" ELSE Ok

\* one more engine call, or the hook, of the Apply that is running
TwoStep ==
    /\ reference # NoReference
    /\ ApplyStep
    /\ Faithful'

\* the scheduler takes up the other Apply: at any point when the two run
\* together, when the first has returned when they run one after the other
TwoSwitch ==
    /\ reference # NoReference
    /\ other.pc # "done"
    /\ reference.phase = "oneAfterTheOther" => pc = "done"
    /\ c' = other.c
    /\ pc' = other.pc
    /\ ci' = other.ci
    /\ createIt' = other.createIt
    /\ callNo' = other.callNo
    /\ other' = [c |-> c, pc |-> pc, ci |-> ci, createIt |-> createIt,
                 callNo |-> callNo]
    /\ UNCHANGED <<returned, pre, log, reference>>
    /\ UNCHANGED engineVars
    /\ UNCHANGED graphVars
    /\ UNCHANGED newVars
    /\ UNCHANGED fnVars

\* the last log entry of call k
LastOf(k) == CHOOSE i \in CallIdx(k) : \A j \in CallIdx(k) : j <= i

\* what call k returned, both calls having returned: the call whose last
\* step came first returned first
ReturnOf(k) ==
    IF LastOf(k) < LastOf(3 - k) THEN returned[1] ELSE returned[2]

\* a container, whatever its ID
Anonymous(info) == IF info = NoContainer THEN info ELSE [info EXCEPT !.Id = 0]

\* what the two calls returned and what they left in the engine: the
\* containers up to their IDs, and the images of the catalog
Outcome ==
    [returned |-> <<ReturnOf(1), ReturnOf(2)>>,
     containers |-> [n \in Names |-> Anonymous(containers[n])],
     images |-> {images[i] : i \in 1..Len(images)}]

BothReturned == pc = "done" /\ other # NoApply /\ other.pc = "done"

\* the two Applys having run one after the other, they are called again,
\* together, on an engine in the state the first run started from
TwoTogether ==
    /\ reference # NoReference
    /\ reference.phase = "oneAfterTheOther"
    /\ BothReturned
    /\ reference' = [phase |-> "together", outcome |-> Outcome]
    /\ containers' = pre.containers
    /\ images' = pre.images
    /\ nextId' = 3
    /\ c' = other.c
    /\ pc' = "inspect"
    /\ ci' = NoContainer
    /\ createIt' = FALSE
    /\ callNo' = 1
    /\ other' = Called(c, 2)
    /\ returned' = <<>>
    /\ log' = <<>>
    /\ UNCHANGED pre
    /\ UNCHANGED graphVars
    /\ UNCHANGED newVars
    /\ UNCHANGED fnVars

NextTwo ==
    \/ TwoStep
    \/ TwoSwitch
    \/ TwoTogether

SpecTwo == InitTwo /\ [][NextTwo]_vars

(***************************************************************************)
(* Properties of two Applys run together (checked under SpecTwo)           *)
(***************************************************************************)
\* C36: however the engine calls of the Applys of two containers of
\* different names are interleaved, the two calls return what they return,
\* and leave the engine with the containers and the images they leave it
\* with, when run one after the other, also when both use the same image
\* and the engine does not hold it.
C36_IndependenceOfReadySpecs ==
    (/\ reference # NoReference
     /\ reference.phase = "together"
     /\ BothReturned)
    => Outcome = reference.outcome

\* the calls alternate, both create from the image "foo", which was not local
C36_Witness ==
    /\ reference # NoReference
    /\ reference.phase = "together"
    /\ BothReturned
    /\ c.image = "foo"
    /\ other.c.image = "foo"
    /\ \A i \in 1..Len(pre.images) : ~containsStr(pre.images[i].RepoTags, "foo")
    /\ \E i, j, k, l \in 1..Len(log) :
          /\ i < j /\ j < k /\ k < l
          /\ log[i].op = "CreateContainer" /\ log[i].res = ErrNotFound
          /\ log[j].op = "CreateContainer" /\ log[j].res = ErrNotFound
          /\ log[j].call # log[i].call
          /\ log[k].op = "PullImage" /\ log[l].op = "PullImage"
    /\ returned = <<Ok, Ok>>
    /\ Outcome = reference.outcome

====
